---- MODULE Spec2Model ----
(***************************************************************************)
(* Authentication, authorisation and user management of the osam-api       *)
(* tourism portal (app/services/auth_service.py, app/services/             *)
(* user_service.py, app/core/dependencies.py, app/api/v1/endpoints/*.py).  *)
(*                                                                         *)
(* The database is the shared state.  Every HTTP request runs in its own   *)
(* SQLAlchemy session (get_db) that is closed at the end of the request,   *)
(* so whatever a handler did not commit is lost.                           *)
(***************************************************************************)
EXTENDS Integers, Sequences, FiniteSets, TLC

VARIABLES
    users,          \* table "users": user_id -> row
    next_user_id,   \* AUTO_INCREMENT counter of users.user_id
    issued,         \* tokens signed by create_access_token, with the instant of issue
    now,            \* the clock (datetime.utcnow()), in ticks
    resp,           \* the response to the request served last at the instant `now`
    sess,           \* create_user calls in flight, one per database session
    places,         \* table "places": place_id -> row
    events,         \* table "events": event_id -> row
    galleries,      \* table "galleries": gallery_id -> row
    images,         \* table "gallery_images": image_id -> row
    next_image_id   \* AUTO_INCREMENT counter of gallery_images.image_id

accounts == <<users, next_user_id>>
content == <<places, events, galleries, images, next_image_id>>
vars == <<users, next_user_id, issued, now, resp, sess, places, events, galleries,
          images, next_image_id>>

-----------------------------------------------------------------------------
(* Bounds of the model *)

TicksPerSecond == 2     \* clock resolution: ticks in one second
MaxUsers == 3           \* rows the users table may hold
MaxTokens == 2          \* tokens handed out in one behaviour
NumSalts == 2           \* salts bcrypt may draw
IssueWindow == 3        \* SpecToken: a token is issued within the first ticks
NumSessions == 2        \* SpecRace: concurrent create_user sessions
MaxElapse == 2          \* Spec: how often half a token lifetime may pass
MaxViews == 1           \* SpecGate: cap of the view counters
MaxImages == 2          \* SpecGate: rows the gallery_images table is given ids for
MaxLookups == 2         \* SpecViews: get_by_id calls of a session per kind
MaxViewCount == 4       \* SpecService: cap of the view counters
MaxImageRows == 3       \* SpecImages: ids the gallery_images table gives out
MaxEvents == 1          \* SpecEvents: rows the events table may hold
MaxDay == 3             \* SpecEvents: the last day, and the latest date of an event
MaxCreated == 2         \* SpecCreate: rows create may add to a table

(* Program constants *)

ACCESS_TOKEN_EXPIRE_MINUTES == 60

HTTP_200_OK == 200
HTTP_201_CREATED == 201
HTTP_204_NO_CONTENT == 204
HTTP_400_BAD_REQUEST == 400
HTTP_401_UNAUTHORIZED == 401
HTTP_403_FORBIDDEN == 403
HTTP_404_NOT_FOUND == 404
HTTP_422_UNPROCESSABLE_ENTITY == 422
HTTP_500_INTERNAL_SERVER_ERROR == 500

-----------------------------------------------------------------------------
(* Token service: AuthService.create_access_token / verify_token *)

None == [user_id |-> 0, username |-> "", role |-> "", exp |-> 0, iat |-> 0]

\* timegm(dt.utctimetuple()): python-jose turns the datetime claims into whole
\* seconds, and reads the clock the same way on decode; microseconds are dropped.
timegm(t) == t \div TicksPerSecond

\* expires_in = ACCESS_TOKEN_EXPIRE_MINUTES * 60
expires_in == ACCESS_TOKEN_EXPIRE_MINUTES * 60

\* timedelta(minutes=ACCESS_TOKEN_EXPIRE_MINUTES), in ticks
ttl_ticks == expires_in * TicksPerSecond

\* The token: the payload and its HS256 signature under SECRET_KEY.
create_access_token(user_id, username, role, t) ==
    [user_id |-> user_id, username |-> username, role |-> role,
     exp |-> timegm(t + ttl_ticks), iat |-> timegm(t), sig |-> "HS256"]

\* What a client may send instead of a token it was given.
Malformed == [user_id |-> 0, username |-> "", role |-> "", exp |-> 0, iat |-> 0,
              sig |-> "malformed"]

\* A token whose payload was edited (role raised to admin); the signature no
\* longer matches.
Tampered(tok) == [tok EXCEPT !.role = "admin", !.sig = "bad"]

Payload(tok) == [user_id |-> tok.user_id, username |-> tok.username,
                 role |-> tok.role, exp |-> tok.exp, iat |-> tok.iat]

\* A verify_token that would read the signature and never the exp claim
verify_token_noexpiry(token, t) ==
    IF token.sig # "HS256" THEN None ELSE Payload(token)

\* jwt.decode(token, SECRET_KEY, algorithms=[ALGORITHM]); every JWTError -> None.
\* python-jose raises ExpiredSignatureError when exp < timegm(utcnow()).
verify_token(token, t) ==
    IF token.sig # "HS256" THEN None
    ELSE IF token.exp < timegm(t) THEN None
    ELSE Payload(token)

-----------------------------------------------------------------------------
(* Passwords: pwd_context = CryptContext(schemes=["bcrypt"]) *)

\* A password is written as the bytes bcrypt reads (head: its first 72 bytes)
\* and the bytes after them (tail, "" for a password of at most 72 bytes).  The
\* request schemas admit passwords of up to 255 characters.
Pw(h, t) == [head |-> h, tail |-> t]

AdminPw == Pw("admin123", "")
EditorPw == Pw("editor456", "")
LongPwA == Pw("seventy-two-bytes", "A")
LongPwB == Pw("seventy-two-bytes", "B")

Passwords == {AdminPw, EditorPw, LongPwA, LongPwB}
Salts == 1..NumSalts

\* bcrypt digest of the bytes bcrypt reads, under a salt
bcrypt(salt, bytes) == <<salt, bytes>>

\* pwd_context.hash(password): a fresh salt and the digest
hash_password(password, salt) ==
    [salt |-> salt, digest |-> bcrypt(salt, password.head)]

\* pwd_context.verify(plain_password, hashed_password)
verify_password(plain_password, hashed_password) ==
    bcrypt(hashed_password.salt, plain_password.head) = hashed_password.digest

-----------------------------------------------------------------------------
(* Credential store: table "users" (app/models/user.py) *)

UserIds == 1..MaxUsers
Roles == {"admin", "editor"}

User(username, email, password_hash, role, is_active, updated_at) ==
    [username |-> username, email |-> email, password_hash |-> password_hash,
     role |-> role, is_active |-> is_active, updated_at |-> updated_at]

\* The row create_admin.py writes.
AdminRow == User("admin", "admin@example.com", hash_password(AdminPw, 1),
                 "admin", TRUE, 0)

\* An editor row, active or not, as a deployment may hold it.
EditorRow(active) == User("bob", "bob@example.com", hash_password(EditorPw, 1),
                          "editor", active, 0)

Ids(U) == DOMAIN U

\* db.query(User).filter(User.user_id == user_id).first(); 0 stands for None
get_user_by_id(U, user_id) == IF user_id \in Ids(U) THEN user_id ELSE 0

\* db.query(User).filter(User.username == username).first()
get_user_by_username(U, username) ==
    IF \E i \in Ids(U) : U[i].username = username
    THEN CHOOSE i \in Ids(U) : U[i].username = username
    ELSE 0

\* db.query(User).filter(User.email == email).first()
get_user_by_email(U, email) ==
    IF \E i \in Ids(U) : U[i].email = email
    THEN CHOOSE i \in Ids(U) : U[i].email = email
    ELSE 0

\* A users table without the two UNIQUE indexes
unique_ok_none(U, username, email) == TRUE

\* The UNIQUE indexes on users.username and users.email: whether the table
\* takes a row with these values.
unique_ok(U, username, email) ==
    /\ \A i \in Ids(U) : U[i].username # username
    /\ \A i \in Ids(U) : U[i].email # email

\* AuthService.authenticate_user: the user's id, 0 for None
authenticate_user(U, username, password) ==
    LET user == get_user_by_username(U, username) IN
    IF user = 0 THEN 0
    ELSE IF ~verify_password(password, U[user].password_hash) THEN 0
    ELSE IF ~U[user].is_active THEN 0
    ELSE user

\* AuthService.create_user.  The INSERT is refused by the table when a UNIQUE
\* index would be violated, and may be refused for the columns the row leaves
\* unset (first_name and last_name are NOT NULL, sql_mode decides): db_ok.
\* Any refusal is rolled back and raised as ValueError.
create_user(U, nid, username, email, password, role, salt, t, db_ok) ==
    IF get_user_by_username(U, username) # 0
    THEN [ok |-> FALSE, detail |-> "Username already exists", users |-> U, user |-> 0]
    ELSE IF get_user_by_email(U, email) # 0
    THEN [ok |-> FALSE, detail |-> "Email already exists", users |-> U, user |-> 0]
    ELSE IF ~db_ok \/ ~unique_ok(U, username, email)
    THEN [ok |-> FALSE, detail |-> "Failed to create user", users |-> U, user |-> 0]
    ELSE [ok |-> TRUE, detail |-> "",
          users |-> (nid :> User(username, email, hash_password(password, salt),
                                 role, TRUE, t)) @@ U,
          user |-> nid]

\* AuthService.update_password
update_password(U, user_id, current_password, new_password, salt, t) ==
    IF get_user_by_id(U, user_id) = 0
    THEN [ok |-> FALSE, detail |-> "User not found", users |-> U]
    ELSE IF ~verify_password(current_password, U[user_id].password_hash)
    THEN [ok |-> FALSE, detail |-> "Current password is incorrect", users |-> U]
    ELSE [ok |-> TRUE, detail |-> "",
          users |-> [U EXCEPT ![user_id].password_hash = hash_password(new_password, salt),
                              ![user_id].updated_at = t]]

-----------------------------------------------------------------------------
(* Access control: app/core/dependencies.py *)

Gate(status, detail, user) == [status |-> status, detail |-> detail, user |-> user]

\* A gate that would answer an inactive user apart from a missing one
get_current_user_telling(U, token, t) ==
    LET payload == verify_token(token, t) IN
    IF payload = None
    THEN Gate(HTTP_401_UNAUTHORIZED, "Invalid or expired token", 0)
    ELSE IF get_user_by_id(U, payload.user_id) = 0
    THEN Gate(HTTP_401_UNAUTHORIZED, "User not found or inactive", 0)
    ELSE IF ~U[payload.user_id].is_active
    THEN Gate(HTTP_403_FORBIDDEN, "Inactive user", 0)
    ELSE Gate(HTTP_200_OK, "", payload.user_id)

\* get_current_user(credentials, db): 200 and the user's id, or the HTTPException
get_current_user(U, token, t) ==
    LET payload == verify_token(token, t) IN
    IF payload = None
    THEN Gate(HTTP_401_UNAUTHORIZED, "Invalid or expired token", 0)
    ELSE IF payload.user_id = 0
    THEN Gate(HTTP_401_UNAUTHORIZED, "Invalid token payload", 0)
    ELSE IF get_user_by_id(U, payload.user_id) = 0 \/ ~U[payload.user_id].is_active
    THEN Gate(HTTP_401_UNAUTHORIZED, "User not found or inactive", 0)
    ELSE Gate(HTTP_200_OK, "", payload.user_id)

\* An admin gate that would not read the role
get_current_admin_any_role(U, token, t) == get_current_user(U, token, t)

\* get_current_admin(current_user = Depends(get_current_user))
get_current_admin(U, token, t) ==
    LET g == get_current_user(U, token, t) IN
    IF g.status # HTTP_200_OK THEN g
    ELSE IF U[g.user].role # "admin"
    THEN Gate(HTTP_403_FORBIDDEN, "This operation requires admin privileges", 0)
    ELSE g

-----------------------------------------------------------------------------
(* User management: app/services/user_service.py, app/services/base_service.py *)

\* BaseService.__init__(self, db) takes one argument besides self;
\* UserService.__init__ calls super().__init__(db, User) with two.
BaseService_init_params == 1
UserService_super_init_args == 2

\* BaseService._commit(self) takes none; UserService calls self._commit(user).
BaseService_commit_params == 0
UserService_commit_args == 1

\* Whether UserService(db) returns an instance (or raises TypeError)
UserService_constructs == UserService_super_init_args = BaseService_init_params

\* Whether self._commit(user) reaches db.commit() (or raises TypeError)
UserService_commits == UserService_commit_args = BaseService_commit_params

Svc(ret, raised, U) == [ret |-> ret, raised |-> raised, users |-> U]

\* The body shared by deactivate_user, activate_user, promote_to_admin and
\* demote_to_editor: look the user up, set the column and updated_at on the
\* session's object, commit.  What is not committed is lost with the session.
set_column(U, user_id, changed, t) ==
    IF get_user_by_id(U, user_id) = 0 THEN Svc(FALSE, FALSE, U)
    ELSE IF ~UserService_commits THEN Svc(FALSE, TRUE, U)
    ELSE Svc(TRUE, FALSE, [U EXCEPT ![user_id] = [changed EXCEPT !.updated_at = t]])

deactivate_user(U, user_id, t) ==
    set_column(U, user_id,
               IF user_id \in Ids(U) THEN [U[user_id] EXCEPT !.is_active = FALSE] ELSE None, t)

activate_user(U, user_id, t) ==
    set_column(U, user_id,
               IF user_id \in Ids(U) THEN [U[user_id] EXCEPT !.is_active = TRUE] ELSE None, t)

promote_to_admin(U, user_id, t) ==
    set_column(U, user_id,
               IF user_id \in Ids(U) THEN [U[user_id] EXCEPT !.role = "admin"] ELSE None, t)

demote_to_editor(U, user_id, t) ==
    set_column(U, user_id,
               IF user_id \in Ids(U) THEN [U[user_id] EXCEPT !.role = "editor"] ELSE None, t)

\* UserService.delete: db.delete(user); db.commit()
UserService_delete(U, user_id) ==
    IF get_user_by_id(U, user_id) = 0 THEN Svc(FALSE, FALSE, U)
    ELSE Svc(TRUE, FALSE, [i \in Ids(U) \ {user_id} |-> U[i]])

-----------------------------------------------------------------------------
(* Content: app/models/place.py, event.py, gallery.py, gallery_image.py and  *)
(* their services.  A row carries the columns whose values the model follows; *)
(* 0 stands for a NULL foreign key, <<>> for a NULL date, <<d>> for day d.    *)

\* Result of a service call: what it returned or raised, and the tables as
\* the call's commits left them
Done(ret, detail, T) == [ret |-> ret, detail |-> detail, table |-> T]

\* An update that builds the row anew and leaves the flag at its default
set_fields_anew(row, kwargs, attrs, pk) ==
    [k \in DOMAIN row |->
        IF k \in DOMAIN kwargs /\ k \in attrs /\ k # pk THEN kwargs[k]
        ELSE IF k = "is_featured" THEN FALSE ELSE row[k]]

\* setattr(row, key, value) for every key of kwargs that hasattr lets through
set_fields(row, kwargs, attrs, pk) ==
    [k \in DOMAIN row |->
        IF k \in DOMAIN kwargs /\ k \in attrs /\ k # pk THEN kwargs[k] ELSE row[k]]

\* The primary key the table gives the next row
new_id(T) == IF DOMAIN T = {} THEN 1
             ELSE 1 + CHOOSE i \in DOMAIN T : \A j \in DOMAIN T : j <= i

\* kwargs.get(field), 0 for None
assoc(kwargs, field) == IF field \in DOMAIN kwargs THEN kwargs[field] ELSE 0

\* date.today()
today(t) == t \div (24 * 60 * 60 * TicksPerSecond)

(* Place *)

Place_columns ==
    {"place_id", "name", "description", "category", "location", "latitude",
     "longitude", "elevation_meters", "entry_fee", "entry_fee_currency",
     "best_time_to_visit", "average_visit_duration_hours", "accessibility",
     "parking_available", "public_restrooms", "food_nearby", "is_featured",
     "view_count", "created_by", "created_at", "updated_at"}

\* Keys of PlaceCreate.dict()
PlaceCreate_fields ==
    {"name", "description", "location", "category", "latitude", "longitude",
     "elevation_meters", "entry_fee", "accessibility_level", "has_parking",
     "has_restrooms", "has_food", "best_time_to_visit"}

\* Fields PlaceResponse reads from the returned Place (from_attributes)
PlaceResponse_fields ==
    {"place_id", "name", "description", "location", "category", "latitude",
     "longitude", "elevation_meters", "entry_fee", "accessibility_level",
     "has_parking", "has_restrooms", "has_food", "best_time_to_visit",
     "view_count", "is_featured", "created_at", "updated_at"}

valid_categories == {"place", "landmark", "viewpoint", "parking"}

\* A get_by_id that only reads: what a pure query would do
PlaceService_get_by_id_pure(P, place_id, t) ==
    IF place_id \notin DOMAIN P THEN Done("None", "", P)
    ELSE Done("place", "", P)

\* PlaceService.get_by_id: the row is read, view_count += 1 is committed; the
\* UPDATE does not name updated_at, so the column's onupdate=datetime.utcnow
\* sets it
PlaceService_get_by_id(P, place_id, t) ==
    IF place_id \notin DOMAIN P THEN Done("None", "", P)
    ELSE Done("place", "",
              [P EXCEPT ![place_id].view_count = @ + 1, ![place_id].updated_at = t])

\* PlaceService.create(**place_data.dict()): Place(**kwargs) raises TypeError
\* for a key that is no attribute of Place
PlaceService_create(P, kwargs, t) ==
    IF \E f \in {"name", "description", "location", "category"} :
          f \notin DOMAIN kwargs \/ kwargs[f] = ""
    THEN Done("ValueError", "Missing required field", P)
    ELSE IF kwargs.category \notin valid_categories
    THEN Done("ValueError", "Invalid category", P)
    ELSE IF ~(DOMAIN kwargs \subseteq Place_columns)
    THEN Done("TypeError", "Failed to create place", P)
    ELSE Done("place", "",
              (new_id(P) :> [name |-> kwargs.name, category |-> kwargs.category,
                             is_featured |-> FALSE, view_count |-> 0,
                             updated_at |-> t]) @@ P)

\* PlaceService.update
PlaceService_update(P, place_id, kwargs, t) ==
    LET got == PlaceService_get_by_id(P, place_id, t)
        Q == got.table
    IN
    IF got.ret = "None" THEN Done("None", "", P)
    ELSE IF "category" \in DOMAIN kwargs /\ kwargs.category \notin valid_categories
    THEN Done("ValueError", "Invalid category", Q)
    ELSE Done("place", "",
              [Q EXCEPT ![place_id] =
                  [set_fields(Q[place_id], kwargs, Place_columns, "place_id")
                      EXCEPT !.updated_at = t]])

\* PlaceService.delete
PlaceService_delete(P, place_id) ==
    IF place_id \notin DOMAIN P THEN Done("False", "", P)
    ELSE Done("True", "", [i \in DOMAIN P \ {place_id} |-> P[i]])

\* PlaceService.toggle_featured
PlaceService_toggle_featured(P, place_id, t) ==
    IF place_id \notin DOMAIN P THEN Done("None", "", P)
    ELSE Done("place", "",
              [P EXCEPT ![place_id].is_featured = ~@, ![place_id].updated_at = t])

(* Event *)

Event_columns ==
    {"event_id", "name", "event_type", "description", "start_date", "end_date",
     "start_time", "end_time", "is_annual", "expected_attendance", "location",
     "latitude", "longitude", "organizing_body", "contact_person",
     "contact_phone", "contact_email", "entry_fee", "is_free",
     "parking_available", "accommodation_nearby", "website", "is_featured",
     "status", "created_by", "created_at", "updated_at"}

\* Keys of EventCreate.dict()
EventCreate_fields ==
    {"name", "description", "event_type", "location", "start_date", "end_date",
     "start_time", "end_time", "is_annual", "is_free", "entry_fee",
     "organizing_body", "contact_person", "phone", "email", "has_parking",
     "has_accommodation"}

\* Fields EventResponse reads from the returned Event
EventResponse_fields ==
    {"event_id", "name", "description", "event_type", "location", "start_date",
     "end_date", "start_time", "end_time", "status", "is_annual", "is_free",
     "entry_fee", "organizing_body", "contact_person", "phone", "email",
     "has_parking", "has_accommodation", "is_featured", "created_at",
     "updated_at"}

valid_types == {"festival", "fair", "ceremony", "cultural"}

\* end_date and end_date < start_date
ends_before_start(start_date, end_date) ==
    end_date # <<>> /\ end_date[1] < start_date[1]

\* A create that leaves the status to the default of the column
EventService_create_by_default(E, kwargs, t) ==
    IF "start_date" \notin DOMAIN kwargs THEN Done("ValueError", "Missing required field", E)
    ELSE Done("event", "",
              (new_id(E) :>
                  [name |-> kwargs.name, event_type |-> kwargs.event_type,
                   start_date |-> kwargs.start_date,
                   end_date |-> IF "end_date" \in DOMAIN kwargs THEN kwargs.end_date
                                ELSE <<>>,
                   status |-> IF "status" \in DOMAIN kwargs THEN kwargs.status
                              ELSE "upcoming",
                   is_featured |-> FALSE, updated_at |-> t]) @@ E)

\* A toggle_featured that puts the status back to the default of the column
EventService_toggle_featured_resetting(E, event_id, t) ==
    IF event_id \notin DOMAIN E THEN Done("None", "", E)
    ELSE Done("event", "",
              [E EXCEPT ![event_id].is_featured = ~@, ![event_id].status = "upcoming",
                        ![event_id].updated_at = t])

\* EventService.create(**event_data.dict())
EventService_create(E, kwargs, t) ==
    IF \/ \E f \in {"name", "event_type", "description", "location"} :
             f \notin DOMAIN kwargs \/ kwargs[f] = ""
       \/ "start_date" \notin DOMAIN kwargs
       \/ kwargs.start_date = <<>>
    THEN Done("ValueError", "Missing required field", E)
    ELSE IF kwargs.event_type \notin valid_types
    THEN Done("ValueError", "Invalid event_type", E)
    ELSE IF "end_date" \in DOMAIN kwargs
            /\ ends_before_start(kwargs.start_date, kwargs.end_date)
    THEN Done("ValueError", "End date cannot be before start date", E)
    ELSE IF ~(DOMAIN kwargs \cup {"status"} \subseteq Event_columns)
    THEN Done("TypeError", "Failed to create event", E)
    ELSE Done("event", "",
              (new_id(E) :>
                  [name |-> kwargs.name, event_type |-> kwargs.event_type,
                   start_date |-> kwargs.start_date,
                   end_date |-> IF "end_date" \in DOMAIN kwargs THEN kwargs.end_date
                                ELSE <<>>,
                   status |-> IF "status" \in DOMAIN kwargs THEN kwargs.status
                              ELSE IF kwargs.start_date[1] <= today(t) THEN "ongoing"
                              ELSE "upcoming",
                   is_featured |-> FALSE, updated_at |-> t]) @@ E)

\* EventService.update
EventService_update(E, event_id, kwargs, t) ==
    LET event == E[event_id]
        start_date == IF "start_date" \in DOMAIN kwargs THEN kwargs.start_date
                      ELSE event.start_date
        end_date == IF "end_date" \in DOMAIN kwargs THEN kwargs.end_date
                    ELSE event.end_date
    IN
    IF event_id \notin DOMAIN E THEN Done("None", "", E)
    ELSE IF "event_type" \in DOMAIN kwargs /\ kwargs.event_type \notin valid_types
    THEN Done("ValueError", "Invalid event_type", E)
    ELSE IF ("start_date" \in DOMAIN kwargs \/ "end_date" \in DOMAIN kwargs)
            /\ ends_before_start(start_date, end_date)
    THEN Done("ValueError", "End date cannot be before start date", E)
    ELSE Done("event", "",
              [E EXCEPT ![event_id] =
                  [set_fields(event, kwargs, Event_columns, "event_id")
                      EXCEPT !.updated_at = t]])

\* EventService.delete
EventService_delete(E, event_id) ==
    IF event_id \notin DOMAIN E THEN Done("False", "", E)
    ELSE Done("True", "", [i \in DOMAIN E \ {event_id} |-> E[i]])

\* The status update_event_status derives from the dates
derived_status(event, day) ==
    IF event.end_date # <<>> /\ day > event.end_date[1] THEN "completed"
    ELSE IF event.start_date[1] <= day
            /\ day <= (IF event.end_date # <<>> THEN event.end_date[1]
                       ELSE event.start_date[1])
    THEN "ongoing"
    ELSE IF day < event.start_date[1] THEN "upcoming"
    ELSE event.status

\* EventService.update_event_status
EventService_update_event_status(E, event_id, t) ==
    IF event_id \notin DOMAIN E THEN Done("None", "", E)
    ELSE Done("event", "",
              [E EXCEPT ![event_id].status = derived_status(E[event_id], today(t)),
                        ![event_id].updated_at = t])

\* EventService.toggle_featured
EventService_toggle_featured(E, event_id, t) ==
    IF event_id \notin DOMAIN E THEN Done("None", "", E)
    ELSE Done("event", "",
              [E EXCEPT ![event_id].is_featured = ~@, ![event_id].updated_at = t])

(* Gallery and GalleryImage *)

Gallery_columns ==
    {"gallery_id", "name", "description", "gallery_type", "is_featured",
     "view_count", "place_id", "temple_id", "site_id", "event_id", "created_by",
     "created_at", "updated_at"}

GalleryImage_columns ==
    {"image_id", "gallery_id", "image_url", "thumbnail_url", "title", "caption",
     "photographer", "image_order", "is_featured", "view_count", "created_at"}

gallery_valid_types == {"photos", "videos", "360photos"}

content_fields == {"place_id", "temple_id", "site_id", "event_id"}

\* GalleryCreate.check_at_least_one_association, a pre-validator of every
\* field: it runs for each field the request supplies, reads the fields
\* validated before it, and finds no association among them at the first
\* association the request supplies.
GalleryCreate_valid(body) ==
    /\ body.name # ""
    /\ body.gallery_type \in gallery_valid_types
    /\ DOMAIN body \cap content_fields = {}

\* GalleryService.create(**gallery_data.dict())
GalleryService_create(G, kwargs, t) ==
    IF \E f \in {"name", "gallery_type"} : f \notin DOMAIN kwargs \/ kwargs[f] = ""
    THEN Done("ValueError", "Missing required field", G)
    ELSE IF kwargs.gallery_type \notin gallery_valid_types
    THEN Done("ValueError", "Invalid gallery_type", G)
    ELSE IF \A f \in content_fields : f \notin DOMAIN kwargs \/ kwargs[f] = 0
    THEN Done("ValueError",
              "Gallery must be associated with a place, temple, site, or event", G)
    ELSE Done("gallery", "",
              (new_id(G) :>
                  [name |-> kwargs.name, gallery_type |-> kwargs.gallery_type,
                   place_id |-> assoc(kwargs, "place_id"),
                   temple_id |-> assoc(kwargs, "temple_id"),
                   site_id |-> assoc(kwargs, "site_id"),
                   event_id |-> assoc(kwargs, "event_id"),
                   is_featured |-> FALSE, view_count |-> 0, updated_at |-> t]) @@ G)

\* GalleryService.update
GalleryService_update(G, gallery_id, kwargs, t) ==
    IF gallery_id \notin DOMAIN G THEN Done("None", "", G)
    ELSE IF "gallery_type" \in DOMAIN kwargs
            /\ kwargs.gallery_type \notin gallery_valid_types
    THEN Done("ValueError", "Invalid gallery_type", G)
    ELSE Done("gallery", "",
              [G EXCEPT ![gallery_id] =
                  [set_fields(G[gallery_id], kwargs, Gallery_columns, "gallery_id")
                      EXCEPT !.updated_at = t]])

\* GalleryService.delete
GalleryService_delete(G, gallery_id) ==
    IF gallery_id \notin DOMAIN G THEN Done("False", "", G)
    ELSE Done("True", "", [i \in DOMAIN G \ {gallery_id} |-> G[i]])

\* cascade="all, delete-orphan": the rows that go with the galleries deleted
without_galleries(I, gone) ==
    [i \in {j \in DOMAIN I : I[j].gallery_id \notin gone} |-> I[i]]

\* Place.galleries / Event.galleries, cascade="all, delete-orphan"
galleries_of(G, column, id) == {g \in DOMAIN G : G[g][column] = id}

\* GalleryService.toggle_featured
GalleryService_toggle_featured(G, gallery_id, t) ==
    IF gallery_id \notin DOMAIN G THEN Done("None", "", G)
    ELSE Done("gallery", "",
              [G EXCEPT ![gallery_id].is_featured = ~@, ![gallery_id].updated_at = t])

\* GalleryService.add_image_to_gallery(gallery_id, **image_data.dict())
GalleryService_add_image_to_gallery(G, I, nid, gallery_id, kwargs) ==
    IF gallery_id \notin DOMAIN G THEN Done("None", "", I)
    ELSE IF \/ kwargs.image_url = ""
            \/ kwargs.title = ""
            \/ kwargs.image_order = 0
    THEN Done("ValueError", "Missing required field", I)
    ELSE Done("image", "",
              (nid :> [gallery_id |-> gallery_id, title |-> kwargs.title,
                       image_order |-> kwargs.image_order, is_featured |-> FALSE])
              @@ I)

\* GalleryService.remove_image_from_gallery(image_id)
GalleryService_remove_image_from_gallery(I, image_id) ==
    IF image_id \notin DOMAIN I THEN Done("False", "", I)
    ELSE Done("True", "", [i \in DOMAIN I \ {image_id} |-> I[i]])

\* A reorder_images that looks images up by id alone
GalleryService_reorder_images_by_id(I, gallery_id, image_order) ==
    Done("True", "",
         [i \in DOMAIN I |->
             IF i \in DOMAIN image_order
             THEN [I[i] EXCEPT !.image_order = image_order[i]]
             ELSE I[i]])

\* GalleryService.reorder_images(gallery_id, image_order)
GalleryService_reorder_images(I, gallery_id, image_order) ==
    Done("True", "",
         [i \in DOMAIN I |->
             IF i \in DOMAIN image_order /\ I[i].gallery_id = gallery_id
             THEN [I[i] EXCEPT !.image_order = image_order[i]]
             ELSE I[i]])

\* GalleryService.get_featured_image: .first() of the featured images of the
\* gallery, 0 for None
GalleryService_get_featured_image(I, gallery_id) ==
    LET F == {i \in DOMAIN I : I[i].gallery_id = gallery_id /\ I[i].is_featured} IN
    IF F = {} THEN 0 ELSE CHOOSE i \in F : \A j \in F : i <= j

\* A set_featured_image whose second query would flush the cleared flag
\* (autoflush) and whose session would commit it
GalleryService_set_featured_image_flushing(I, gallery_id, image_id) ==
    LET featured == GalleryService_get_featured_image(I, gallery_id)
        J == IF featured = 0 THEN I ELSE [I EXCEPT ![featured].is_featured = FALSE]
    IN
    IF image_id \in DOMAIN I /\ I[image_id].gallery_id = gallery_id
    THEN Done("image", "", [J EXCEPT ![image_id].is_featured = TRUE])
    ELSE Done("None", "", J)

\* GalleryService.set_featured_image: the flag of the image featured before
\* is cleared on the session and committed only together with the new one
GalleryService_set_featured_image(I, gallery_id, image_id) ==
    LET featured == GalleryService_get_featured_image(I, gallery_id)
        J == IF featured = 0 THEN I ELSE [I EXCEPT ![featured].is_featured = FALSE]
    IN
    IF image_id \in DOMAIN I /\ I[image_id].gallery_id = gallery_id
    THEN Done("image", "", [J EXCEPT ![image_id].is_featured = TRUE])
    ELSE Done("None", "", I)

-----------------------------------------------------------------------------
(* Requests *)

\* The HTTPException (or the success) a handler ends with
Reply(op, status, detail) == [op |-> op, status |-> status, detail |-> detail]

NoResp == Reply("", 0, "")

Tokens == {e.tok : e \in issued}

\* What a client may present as bearer credentials
Creds ==
    Tokens \cup {Tampered(tok) : tok \in {t \in Tokens : t.role # "admin"}}
           \cup {Malformed}

Idle == [s \in 1..NumSessions |-> [pc |-> "idle"]]

\* How a content handler ends once its dependencies are solved: 422 for a body
\* the request schema refuses, 404 for None/False, 400 for ValueError, 500 for
\* any other exception and for a return value the response model cannot read.
Served(op, g, valid, r, ok_status, readable) ==
    IF g.status # HTTP_200_OK THEN Reply(op, g.status, g.detail)
    ELSE IF ~valid THEN Reply(op, HTTP_422_UNPROCESSABLE_ENTITY, "validation error")
    ELSE IF r.ret \in {"None", "False"} THEN Reply(op, HTTP_404_NOT_FOUND, "not found")
    ELSE IF r.ret = "ValueError" THEN Reply(op, HTTP_400_BAD_REQUEST, r.detail)
    ELSE IF r.ret = "TypeError"
    THEN Reply(op, HTTP_500_INTERNAL_SERVER_ERROR, r.detail)
    ELSE IF ~readable
    THEN Reply(op, HTTP_500_INTERNAL_SERVER_ERROR, "Internal Server Error")
    ELSE Reply(op, ok_status, "")

\* The table as the request leaves it: the handler body runs only behind the
\* gate and the request schema
Effect(g, valid, r, T) ==
    IF g.status = HTTP_200_OK /\ valid THEN r.table ELSE T

\* Whether the service call of the request was made and returned the entity
Went(g, valid, r) ==
    g.status = HTTP_200_OK /\ valid /\ r.ret \in {"True", "place", "event", "gallery", "image"}

(* /places *)

\* PlaceCreate: min_length of name and location, validate_category
PlaceCreate_valid(body) ==
    body.name # "" /\ body.location # "" /\ body.category \in valid_categories

\* place_data.dict(): every field of the schema, "" for the ones left None
PlaceCreate_dict(body) ==
    [f \in PlaceCreate_fields |-> IF f \in DOMAIN body THEN body[f] ELSE ""]

\* PlaceUpdate.validate_category
PlaceUpdate_valid(body) ==
    "category" \in DOMAIN body => body.category \in valid_categories

\* POST /places/
create_place(token, place_data) ==
    LET g == get_current_admin(users, token, now)
        valid == PlaceCreate_valid(place_data)
        r == PlaceService_create(places, PlaceCreate_dict(place_data), now)
    IN
    /\ resp' = Served("create_place", g, valid, r, HTTP_201_CREATED,
                      PlaceResponse_fields \subseteq Place_columns)
    /\ places' = Effect(g, valid, r, places)
    /\ UNCHANGED <<accounts, issued, now, sess, events, galleries, images, next_image_id>>

\* PATCH /places/{place_id}
update_place(token, place_id, place_data) ==
    LET g == get_current_admin(users, token, now)
        valid == PlaceUpdate_valid(place_data)
        r == PlaceService_update(places, place_id, place_data, now)
    IN
    /\ (g.status = HTTP_200_OK /\ valid /\ place_id \in DOMAIN places)
          => places[place_id].view_count < MaxViews
    /\ resp' = Served("update_place", g, valid, r, HTTP_200_OK,
                      PlaceResponse_fields \subseteq Place_columns)
    /\ places' = Effect(g, valid, r, places)
    /\ UNCHANGED <<accounts, issued, now, sess, events, galleries, images, next_image_id>>

\* DELETE /places/{place_id}; Place.galleries and Gallery.gallery_images
\* cascade
delete_place(token, place_id) ==
    LET g == get_current_admin(users, token, now)
        r == PlaceService_delete(places, place_id)
        gone == IF Went(g, TRUE, r) THEN galleries_of(galleries, "place_id", place_id)
                ELSE {}
    IN
    /\ resp' = Served("delete_place", g, TRUE, r, HTTP_204_NO_CONTENT, TRUE)
    /\ places' = Effect(g, TRUE, r, places)
    /\ galleries' = [i \in DOMAIN galleries \ gone |-> galleries[i]]
    /\ images' = without_galleries(images, gone)
    /\ UNCHANGED <<accounts, issued, now, sess, events, next_image_id>>

\* POST /places/{place_id}/featured
toggle_place_featured(token, place_id) ==
    LET g == get_current_admin(users, token, now)
        r == PlaceService_toggle_featured(places, place_id, now)
    IN
    /\ resp' = Served("toggle_place_featured", g, TRUE, r, HTTP_200_OK, TRUE)
    /\ places' = Effect(g, TRUE, r, places)
    /\ UNCHANGED <<accounts, issued, now, sess, events, galleries, images, next_image_id>>

(* /events *)

\* EventCreate: min_length of name and location, validate_event_type,
\* validate_date_range (end_date is required)
EventCreate_valid(body) ==
    /\ body.name # "" /\ body.location # ""
    /\ body.event_type \in valid_types
    /\ body.start_date # <<>> /\ body.end_date # <<>>
    /\ body.end_date[1] >= body.start_date[1]

\* event_data.dict()
EventCreate_dict(body) ==
    [f \in EventCreate_fields |-> IF f \in DOMAIN body THEN body[f] ELSE ""]

\* EventUpdate.validate_event_type
EventUpdate_valid(body) ==
    "event_type" \in DOMAIN body => body.event_type \in valid_types

\* POST /events/
create_event(token, event_data) ==
    LET g == get_current_admin(users, token, now)
        valid == EventCreate_valid(event_data)
        r == EventService_create(events, EventCreate_dict(event_data), now)
    IN
    /\ resp' = Served("create_event", g, valid, r, HTTP_201_CREATED,
                      EventResponse_fields \subseteq Event_columns)
    /\ events' = Effect(g, valid, r, events)
    /\ UNCHANGED <<accounts, issued, now, sess, places, galleries, images, next_image_id>>

\* PATCH /events/{event_id}
update_event(token, event_id, event_data) ==
    LET g == get_current_admin(users, token, now)
        valid == EventUpdate_valid(event_data)
        r == EventService_update(events, event_id, event_data, now)
    IN
    /\ resp' = Served("update_event", g, valid, r, HTTP_200_OK,
                      EventResponse_fields \subseteq Event_columns)
    /\ events' = Effect(g, valid, r, events)
    /\ UNCHANGED <<accounts, issued, now, sess, places, galleries, images, next_image_id>>

\* DELETE /events/{event_id}; Event.galleries and Gallery.gallery_images
\* cascade
delete_event(token, event_id) ==
    LET g == get_current_admin(users, token, now)
        r == EventService_delete(events, event_id)
        gone == IF Went(g, TRUE, r) THEN galleries_of(galleries, "event_id", event_id)
                ELSE {}
    IN
    /\ resp' = Served("delete_event", g, TRUE, r, HTTP_204_NO_CONTENT, TRUE)
    /\ events' = Effect(g, TRUE, r, events)
    /\ galleries' = [i \in DOMAIN galleries \ gone |-> galleries[i]]
    /\ images' = without_galleries(images, gone)
    /\ UNCHANGED <<accounts, issued, now, sess, places, next_image_id>>

\* POST /events/{event_id}/status/update
update_event_status(token, event_id) ==
    LET g == get_current_admin(users, token, now)
        r == EventService_update_event_status(events, event_id, now)
    IN
    /\ resp' = Served("update_event_status", g, TRUE, r, HTTP_200_OK, TRUE)
    /\ events' = Effect(g, TRUE, r, events)
    /\ UNCHANGED <<accounts, issued, now, sess, places, galleries, images, next_image_id>>

\* POST /events/{event_id}/featured
toggle_event_featured(token, event_id) ==
    LET g == get_current_admin(users, token, now)
        r == EventService_toggle_featured(events, event_id, now)
    IN
    /\ resp' = Served("toggle_event_featured", g, TRUE, r, HTTP_200_OK, TRUE)
    /\ events' = Effect(g, TRUE, r, events)
    /\ UNCHANGED <<accounts, issued, now, sess, places, galleries, images, next_image_id>>

(* /galleries *)

\* Fields GalleryResponse reads from the returned Gallery (images has a
\* default)
GalleryResponse_fields ==
    {"gallery_id", "name", "description", "gallery_type", "place_id",
     "temple_id", "site_id", "event_id", "is_featured", "view_count",
     "created_at", "updated_at"}

\* Fields GalleryImageResponse reads from the returned GalleryImage
GalleryImageResponse_fields ==
    {"image_id", "image_url", "thumbnail_url", "title", "caption",
     "photographer", "image_order", "is_featured", "view_count", "created_at"}

\* GalleryUpdate.validate_gallery_type
GalleryUpdate_valid(body) ==
    "gallery_type" \in DOMAIN body => body.gallery_type \in gallery_valid_types

\* GalleryImageCreate: image_order has ge=0
GalleryImageCreate_valid(body) == body.image_order >= 0

\* POST /galleries/
create_gallery(token, gallery_data) ==
    LET g == get_current_admin(users, token, now)
        valid == GalleryCreate_valid(gallery_data)
        r == GalleryService_create(galleries, gallery_data, now)
    IN
    /\ resp' = Served("create_gallery", g, valid, r, HTTP_201_CREATED,
                      GalleryResponse_fields \subseteq Gallery_columns)
    /\ galleries' = Effect(g, valid, r, galleries)
    /\ UNCHANGED <<accounts, issued, now, sess, places, events, images, next_image_id>>

\* PATCH /galleries/{gallery_id}
update_gallery(token, gallery_id, gallery_data) ==
    LET g == get_current_admin(users, token, now)
        valid == GalleryUpdate_valid(gallery_data)
        r == GalleryService_update(galleries, gallery_id, gallery_data, now)
    IN
    /\ resp' = Served("update_gallery", g, valid, r, HTTP_200_OK,
                      GalleryResponse_fields \subseteq Gallery_columns)
    /\ galleries' = Effect(g, valid, r, galleries)
    /\ UNCHANGED <<accounts, issued, now, sess, places, events, images, next_image_id>>

\* DELETE /galleries/{gallery_id}; Gallery.gallery_images cascades
delete_gallery(token, gallery_id) ==
    LET g == get_current_admin(users, token, now)
        r == GalleryService_delete(galleries, gallery_id)
    IN
    /\ resp' = Served("delete_gallery", g, TRUE, r, HTTP_204_NO_CONTENT, TRUE)
    /\ galleries' = Effect(g, TRUE, r, galleries)
    /\ images' = IF Went(g, TRUE, r) THEN without_galleries(images, {gallery_id})
                 ELSE images
    /\ UNCHANGED <<accounts, issued, now, sess, places, events, next_image_id>>

\* POST /galleries/{gallery_id}/featured
toggle_gallery_featured(token, gallery_id) ==
    LET g == get_current_admin(users, token, now)
        r == GalleryService_toggle_featured(galleries, gallery_id, now)
    IN
    /\ resp' = Served("toggle_gallery_featured", g, TRUE, r, HTTP_200_OK, TRUE)
    /\ galleries' = Effect(g, TRUE, r, galleries)
    /\ UNCHANGED <<accounts, issued, now, sess, places, events, images, next_image_id>>

\* POST /galleries/{gallery_id}/images
add_image_to_gallery(token, gallery_id, image_data) ==
    LET g == get_current_admin(users, token, now)
        valid == GalleryImageCreate_valid(image_data)
        r == GalleryService_add_image_to_gallery(galleries, images, next_image_id, gallery_id,
                                  image_data)
    IN
    /\ Went(g, valid, r) => next_image_id <= MaxImages
    /\ resp' = Served("add_image_to_gallery", g, valid, r, HTTP_201_CREATED,
                      GalleryImageResponse_fields \subseteq GalleryImage_columns)
    /\ images' = Effect(g, valid, r, images)
    /\ next_image_id' = IF Went(g, valid, r) THEN next_image_id + 1 ELSE next_image_id
    /\ UNCHANGED <<accounts, issued, now, sess, places, events, galleries>>

\* DELETE /galleries/{gallery_id}/images/{image_id}
remove_image_from_gallery(token, gallery_id, image_id) ==
    LET g == get_current_admin(users, token, now)
        r == GalleryService_remove_image_from_gallery(images, image_id)
    IN
    /\ resp' = Served("remove_image_from_gallery", g, TRUE, r, HTTP_204_NO_CONTENT, TRUE)
    /\ images' = Effect(g, TRUE, r, images)
    /\ UNCHANGED <<accounts, issued, now, sess, places, events, galleries, next_image_id>>

\* POST /galleries/{gallery_id}/images/reorder
reorder_gallery_images(token, gallery_id, image_order) ==
    LET g == get_current_admin(users, token, now)
        r == GalleryService_reorder_images(images, gallery_id, image_order)
    IN
    /\ resp' = Served("reorder_gallery_images", g, TRUE, r, HTTP_200_OK, TRUE)
    /\ images' = Effect(g, TRUE, r, images)
    /\ UNCHANGED <<accounts, issued, now, sess, places, events, galleries, next_image_id>>

\* POST /galleries/{gallery_id}/images/{image_id}/featured
set_featured_image(token, gallery_id, image_id) ==
    LET g == get_current_admin(users, token, now)
        r == GalleryService_set_featured_image(images, gallery_id, image_id)
    IN
    /\ resp' = Served("set_featured_image", g, TRUE, r, HTTP_200_OK, TRUE)
    /\ images' = Effect(g, TRUE, r, images)
    /\ UNCHANGED <<accounts, issued, now, sess, places, events, galleries, next_image_id>>

(* /auth *)

\* POST /auth/login
login(username, password) ==
    LET user == authenticate_user(users, username, password)
        tok == IF user = 0 THEN None
               ELSE create_access_token(user, users[user].username, users[user].role, now)
    IN
    /\ \/ user = 0
       \/ Cardinality(issued) < MaxTokens
       \/ [tok |-> tok, at |-> now] \in issued
    /\ issued' = IF user = 0 THEN issued ELSE issued \cup {[tok |-> tok, at |-> now]}
    /\ resp' = IF user = 0
               THEN Reply("login", HTTP_401_UNAUTHORIZED, "Invalid username or password")
               ELSE Reply("login", HTTP_200_OK, "")
    /\ UNCHANGED <<accounts, now, sess, content>>

\* A register that would take any role
register_role_allowed_any(role) == TRUE

\* register: if user_data.role == "admin": raise HTTPException(403)
register_role_allowed(role) == role # "admin"

\* POST /auth/register
register(username, email, password, role, salt, db_ok) ==
    LET r == create_user(users, next_user_id, username, email, password, role,
                         salt, now, db_ok)
    IN
    /\ (register_role_allowed(role) /\ r.ok) => next_user_id <= MaxUsers
    /\ IF ~register_role_allowed(role)
       THEN /\ resp' = Reply("register", HTTP_403_FORBIDDEN,
                             "Admin accounts can only be created by existing admins")
            /\ UNCHANGED accounts
       ELSE /\ resp' = Reply("register",
                             IF r.ok THEN HTTP_201_CREATED ELSE HTTP_400_BAD_REQUEST,
                             r.detail)
            /\ users' = r.users
            /\ next_user_id' = IF r.ok THEN next_user_id + 1 ELSE next_user_id
    /\ UNCHANGED <<issued, now, sess, content>>

\* POST /auth/admin/create-user
admin_create_user(token, username, email, password, role, salt, db_ok) ==
    LET g == get_current_admin(users, token, now)
        r == create_user(users, next_user_id, username, email, password, role,
                         salt, now, db_ok)
    IN
    /\ (g.status = HTTP_200_OK /\ r.ok) => next_user_id <= MaxUsers
    /\ IF g.status # HTTP_200_OK
       THEN /\ resp' = Reply("admin_create_user", g.status, g.detail)
            /\ UNCHANGED accounts
       ELSE /\ resp' = Reply("admin_create_user",
                             IF r.ok THEN HTTP_201_CREATED ELSE HTTP_400_BAD_REQUEST,
                             r.detail)
            /\ users' = r.users
            /\ next_user_id' = IF r.ok THEN next_user_id + 1 ELSE next_user_id
    /\ UNCHANGED <<issued, now, sess, content>>

\* GET /auth/me
get_current_user_info(token) ==
    LET g == get_current_user(users, token, now) IN
    /\ resp' = Reply("get_current_user_info", g.status, g.detail)
    /\ UNCHANGED <<accounts, issued, now, sess, content>>

\* POST /auth/change-password (confirm_password = new_password is checked by
\* the request schema before the handler runs)
change_password(token, current_password, new_password, salt) ==
    LET g == get_current_user(users, token, now)
        r == update_password(users, g.user, current_password, new_password, salt, now)
    IN
    /\ IF g.status # HTTP_200_OK
       THEN /\ resp' = Reply("change_password", g.status, g.detail)
            /\ UNCHANGED users
       ELSE /\ resp' = Reply("change_password",
                             IF r.ok THEN HTTP_200_OK ELSE HTTP_400_BAD_REQUEST, r.detail)
            /\ users' = r.users
    /\ UNCHANGED <<next_user_id, issued, now, sess, content>>

\* A logout that would revoke the token it was presented
logout_revoking(token) ==
    LET g == get_current_user(users, token, now) IN
    /\ resp' = Reply("logout", g.status, g.detail)
    /\ issued' = IF g.status = HTTP_200_OK THEN {e \in issued : e.tok # token}
                 ELSE issued
    /\ UNCHANGED <<accounts, now, sess, content>>

\* POST /auth/logout
logout(token) ==
    LET g == get_current_user(users, token, now) IN
    /\ resp' = Reply("logout", g.status, g.detail)
    /\ UNCHANGED <<accounts, issued, now, sess, content>>

\* The four handlers as they would run if UserService(db) and its commits
\* went through: the service call is made and its effect is stored
AdminMutation_serving(op, token, user_id, r) ==
    LET g == get_current_admin(users, token, now)
        changed == IF op = "admin_deactivate_user" THEN [users[user_id] EXCEPT !.is_active = FALSE]
                   ELSE IF op = "admin_activate_user" THEN [users[user_id] EXCEPT !.is_active = TRUE]
                   ELSE IF op = "admin_promote_user" THEN [users[user_id] EXCEPT !.role = "admin"]
                   ELSE [users[user_id] EXCEPT !.role = "editor"]
    IN
    /\ IF g.status # HTTP_200_OK
       THEN /\ resp' = Reply(op, g.status, g.detail)
            /\ UNCHANGED users
       ELSE IF user_id \notin Ids(users)
       THEN /\ resp' = Reply(op, HTTP_404_NOT_FOUND, "User not found")
            /\ UNCHANGED users
       ELSE /\ resp' = Reply(op, HTTP_200_OK, "")
            /\ users' = [users EXCEPT ![user_id] = [changed EXCEPT !.updated_at = now]]
    /\ UNCHANGED <<next_user_id, issued, now, sess, content>>

\* The four handlers admin_activate_user, admin_deactivate_user,
\* admin_promote_user, admin_demote_user share this shape: the admin gate,
\* UserService(db), the service call, 404 when it returns False.  An exception
\* no handler catches ends the request with 500.
AdminMutation(op, token, user_id, r) ==
    LET g == get_current_admin(users, token, now) IN
    /\ IF g.status # HTTP_200_OK
       THEN /\ resp' = Reply(op, g.status, g.detail)
            /\ UNCHANGED users
       ELSE IF ~UserService_constructs \/ r.raised
       THEN /\ resp' = Reply(op, HTTP_500_INTERNAL_SERVER_ERROR, "Internal Server Error")
            /\ UNCHANGED users
       ELSE IF ~r.ret
       THEN /\ resp' = Reply(op, HTTP_404_NOT_FOUND, "User not found")
            /\ UNCHANGED users
       ELSE /\ resp' = Reply(op, HTTP_200_OK, "")
            /\ users' = r.users
    /\ UNCHANGED <<next_user_id, issued, now, sess, content>>

\* POST /auth/admin/users/{user_id}/activate
admin_activate_user(token, user_id) ==
    AdminMutation("admin_activate_user", token, user_id, activate_user(users, user_id, now))

\* POST /auth/admin/users/{user_id}/deactivate
admin_deactivate_user(token, user_id) ==
    AdminMutation("admin_deactivate_user", token, user_id, deactivate_user(users, user_id, now))

\* POST /auth/admin/users/{user_id}/promote
admin_promote_user(token, user_id) ==
    AdminMutation("admin_promote_user", token, user_id, promote_to_admin(users, user_id, now))

\* POST /auth/admin/users/{user_id}/demote
admin_demote_user(token, user_id) ==
    AdminMutation("admin_demote_user", token, user_id, demote_to_editor(users, user_id, now))

\* GET /auth/admin/users
admin_list_users(token) ==
    LET g == get_current_admin(users, token, now) IN
    /\ resp' = IF g.status # HTTP_200_OK THEN Reply("admin_list_users", g.status, g.detail)
               ELSE IF ~UserService_constructs
               THEN Reply("admin_list_users", HTTP_500_INTERNAL_SERVER_ERROR,
                          "Internal Server Error")
               ELSE Reply("admin_list_users", HTTP_200_OK, "")
    /\ UNCHANGED <<accounts, issued, now, sess, content>>

\* An admin_delete_user without the self-deletion check
is_self_delete_never(user_id, current_user) == FALSE

\* Whether admin_delete_user refuses the request as a self-deletion
is_self_delete(user_id, current_user) == user_id = current_user

\* DELETE /auth/admin/users/{user_id}
admin_delete_user(token, user_id) ==
    LET g == get_current_admin(users, token, now)
        r == UserService_delete(users, user_id)
        op == "admin_delete_user"
    IN
    /\ IF g.status # HTTP_200_OK
       THEN /\ resp' = Reply(op, g.status, g.detail)
            /\ UNCHANGED users
       ELSE IF is_self_delete(user_id, g.user)
       THEN /\ resp' = Reply(op, HTTP_400_BAD_REQUEST, "Cannot delete your own account")
            /\ UNCHANGED users
       ELSE IF ~UserService_constructs
       THEN /\ resp' = Reply(op, HTTP_500_INTERNAL_SERVER_ERROR, "Internal Server Error")
            /\ UNCHANGED users
       ELSE IF ~r.ret
       THEN /\ resp' = Reply(op, HTTP_404_NOT_FOUND, "User not found")
            /\ UNCHANGED users
       ELSE /\ resp' = Reply(op, HTTP_204_NO_CONTENT, "")
            /\ users' = r.users
    /\ UNCHANGED <<next_user_id, issued, now, sess, content>>

-----------------------------------------------------------------------------
(* Time *)

\* The clock moves on by one tick; the response served before is history.
Tick ==
    /\ now < ttl_ticks + IssueWindow + 2 * TicksPerSecond
    /\ now' = now + 1
    /\ resp' = NoResp
    /\ UNCHANGED <<accounts, issued, sess, content>>

\* A little more than half a token lifetime passes.
HalfLife == ttl_ticks \div 2 + 1

Elapse ==
    /\ now + HalfLife <= MaxElapse * HalfLife
    /\ now' = now + HalfLife
    /\ resp' = NoResp
    /\ UNCHANGED <<accounts, issued, sess, content>>

-----------------------------------------------------------------------------
(* Seeds *)

\* A table without rows
Empty == [i \in {} |-> 0]

\* Rows that exist when the API starts: the administrator of create_admin.py
\* and an editor row, active or not.
SeedStores ==
    { (1 :> AdminRow) @@ (2 :> EditorRow(TRUE)),
      (1 :> AdminRow) @@ (2 :> EditorRow(FALSE)) }

\* The token of a row that logged in at instant t
SeedToken(U, i, t) ==
    [tok |-> create_access_token(i, U[i].username, U[i].role, t), at |-> t]

SeedPlace == [name |-> "Osam Hill", category |-> "landmark", is_featured |-> FALSE,
              view_count |-> 0, updated_at |-> 0]

SeedEvent == [name |-> "Janmashtami Festival", event_type |-> "festival",
              start_date |-> <<0>>, end_date |-> <<1>>, status |-> "upcoming",
              is_featured |-> FALSE, updated_at |-> 0]

SeedGallery(place_id, temple_id) ==
    [name |-> "Osam Hill Photo Collection", gallery_type |-> "photos",
     place_id |-> place_id, temple_id |-> temple_id, site_id |-> 0, event_id |-> 0,
     is_featured |-> FALSE, view_count |-> 0, updated_at |-> 0]

SeedImage(gallery_id, order, featured) ==
    [gallery_id |-> gallery_id, title |-> "Sunrise", image_order |-> order,
     is_featured |-> featured]

\* The contents the model starts from: a place with a gallery of its own, an
\* event, a gallery alone, or a gallery with its featured image.
\* next_image_id is the AUTO_INCREMENT counter of gallery_images.
SeedContents ==
    { [places |-> (1 :> SeedPlace), events |-> Empty,
       galleries |-> (3 :> SeedGallery(1, 0)), images |-> Empty,
       next_image_id |-> MaxImages + 1],
      [places |-> Empty, events |-> (1 :> SeedEvent), galleries |-> Empty,
       images |-> Empty, next_image_id |-> MaxImages + 1],
      [places |-> Empty, events |-> Empty, galleries |-> (1 :> SeedGallery(0, 1)),
       images |-> Empty, next_image_id |-> MaxImages + 1],
      [places |-> Empty, events |-> Empty, galleries |-> (2 :> SeedGallery(0, 1)),
       images |-> (1 :> SeedImage(2, 1, TRUE)), next_image_id |-> 2] }

NoContent ==
    /\ places = Empty /\ events = Empty /\ galleries = Empty /\ images = Empty
    /\ next_image_id = 1

\* The accounts requests ask for
NewAccounts == {<<"bob", "bob@example.com">>, <<"carol", "carol@example.com">>}

-----------------------------------------------------------------------------
(* SpecToken: the token service alone, on the fine clock *)

\* token, expires_in = auth_service.create_access_token(...)
IssueToken(user_id, username, role) ==
    /\ issued = {}
    /\ now < IssueWindow
    /\ issued' = {[tok |-> create_access_token(user_id, username, role, now), at |-> now]}
    /\ resp' = [op |-> "create_access_token", status |-> 0, expires_in |-> expires_in]
    /\ UNCHANGED <<accounts, now, sess, content>>

\* payload = auth_service.verify_token(token)
VerifyToken(token) ==
    /\ resp' = [op |-> "verify_token", status |-> 0, cred |-> token,
                payload |-> verify_token(token, now)]
    /\ UNCHANGED <<accounts, issued, now, sess, content>>

InitToken ==
    /\ users = (1 :> AdminRow) @@ (2 :> EditorRow(TRUE))
    /\ next_user_id = 3
    /\ issued = {}
    /\ now = 0
    /\ resp = NoResp
    /\ sess = Idle
    /\ NoContent

NextToken ==
    \/ \E u \in {1, 2} : IssueToken(u, users[u].username, users[u].role)
    \/ \E token \in Creds : VerifyToken(token)
    \/ Tick

SpecToken == InitToken /\ [][NextToken]_vars

-----------------------------------------------------------------------------
(* SpecPw: AuthService called directly, passwords of every length *)

Called(op, ok, detail, user) == [op |-> op, ok |-> ok, detail |-> detail, user |-> user]

\* auth_service.create_user(username, email, password, role)
CreateUser(username, email, password, role, salt, db_ok) ==
    LET r == create_user(users, next_user_id, username, email, password, role,
                         salt, now, db_ok)
    IN
    /\ r.ok => next_user_id <= MaxUsers
    /\ users' = r.users
    /\ next_user_id' = IF r.ok THEN next_user_id + 1 ELSE next_user_id
    /\ resp' = Called("create_user", r.ok, r.detail, r.user)
    /\ UNCHANGED <<issued, now, sess, content>>

\* auth_service.authenticate_user(username, password)
Authenticate(username, password) ==
    /\ resp' = Called("authenticate_user", TRUE, "",
                      authenticate_user(users, username, password))
    /\ UNCHANGED <<accounts, issued, now, sess, content>>

\* auth_service.update_password(user_id, current_password, new_password)
UpdatePassword(user_id, current_password, new_password, salt) ==
    LET r == update_password(users, user_id, current_password, new_password, salt, now)
    IN
    /\ users' = r.users
    /\ resp' = Called("update_password", r.ok, r.detail, user_id)
    /\ UNCHANGED <<next_user_id, issued, now, sess, content>>

InitPw ==
    /\ users \in SeedStores
    /\ next_user_id = 3
    /\ issued = {}
    /\ now = 0
    /\ resp = NoResp
    /\ sess = Idle
    /\ NoContent

NextPw ==
    \/ \E password \in {EditorPw, LongPwA}, db_ok \in BOOLEAN :
          CreateUser("carol", "carol@example.com", password, "editor", 1, db_ok)
    \/ \E username \in {"admin", "bob", "carol"}, password \in Passwords :
          Authenticate(username, password)
    \/ \E user_id \in UserIds, cur \in Passwords, new \in Passwords, salt \in Salts :
          UpdatePassword(user_id, cur, new, salt)

SpecPw == InitPw /\ [][NextPw]_vars

-----------------------------------------------------------------------------
(* SpecRace: create_user in concurrent database sessions.  A session's two   *)
(* SELECTs read one snapshot; its INSERT meets the table as committed.       *)

Waiting(op, username, email, role) ==
    [pc |-> "insert", op |-> op, username |-> username, email |-> email, role |-> role]

\* create_user up to the INSERT: the two lookups
create_user_select(s, op, username, email, role) ==
    IF get_user_by_username(users, username) # 0
    THEN /\ resp' = Reply(op, HTTP_400_BAD_REQUEST, "Username already exists")
         /\ UNCHANGED sess
    ELSE IF get_user_by_email(users, email) # 0
    THEN /\ resp' = Reply(op, HTTP_400_BAD_REQUEST, "Email already exists")
         /\ UNCHANGED sess
    ELSE /\ sess' = [sess EXCEPT ![s] = Waiting(op, username, email, role)]
         /\ UNCHANGED resp

\* POST /auth/register arrives in session s
register_begin(s, username, email, role) ==
    /\ sess[s].pc = "idle"
    /\ IF ~register_role_allowed(role)
       THEN /\ resp' = Reply("register", HTTP_403_FORBIDDEN,
                             "Admin accounts can only be created by existing admins")
            /\ UNCHANGED sess
       ELSE create_user_select(s, "register", username, email, role)
    /\ UNCHANGED <<accounts, issued, now, content>>

\* POST /auth/admin/create-user arrives in session s
admin_create_user_begin(s, token, username, email, role) ==
    LET g == get_current_admin(users, token, now) IN
    /\ sess[s].pc = "idle"
    /\ IF g.status # HTTP_200_OK
       THEN /\ resp' = Reply("admin_create_user", g.status, g.detail)
            /\ UNCHANGED sess
       ELSE create_user_select(s, "admin_create_user", username, email, role)
    /\ UNCHANGED <<accounts, issued, now, content>>

\* db.add(user); db.commit() of session s, and the response
create_user_insert(s, db_ok) ==
    LET c == sess[s]
        taken == db_ok /\ unique_ok(users, c.username, c.email)
    IN
    /\ c.pc = "insert"
    /\ taken => next_user_id <= MaxUsers
    /\ users' = IF taken
                THEN (next_user_id :> User(c.username, c.email,
                                           hash_password(EditorPw, 1), c.role, TRUE, now))
                     @@ users
                ELSE users
    /\ next_user_id' = IF taken THEN next_user_id + 1 ELSE next_user_id
    /\ resp' = IF taken THEN Reply(c.op, HTTP_201_CREATED, "")
               ELSE Reply(c.op, HTTP_400_BAD_REQUEST, "Failed to create user")
    /\ sess' = [sess EXCEPT ![s] = [pc |-> "idle"]]
    /\ UNCHANGED <<issued, now, content>>

InitRace ==
    /\ users = (1 :> AdminRow)
    /\ next_user_id = 2
    /\ issued = {SeedToken(users, 1, 0)}
    /\ now = 0
    /\ resp = NoResp
    /\ sess = Idle
    /\ NoContent

NextRace ==
    \/ \E s \in 1..NumSessions, username \in {"bob", "carol"},
          email \in {"bob@example.com", "carol@example.com"}, role \in Roles :
          register_begin(s, username, email, role)
    \/ \E s \in 1..NumSessions, token \in Creds, username \in {"bob", "carol"},
          email \in {"bob@example.com", "carol@example.com"}, role \in Roles :
          admin_create_user_begin(s, token, username, email, role)
    \/ \E s \in 1..NumSessions : create_user_insert(s, TRUE)

SpecRace == InitRace /\ [][NextRace]_vars

-----------------------------------------------------------------------------
(* SpecGate: every admin-gated request, against seeded accounts and content *)

PlaceBodies == {[name |-> "Osam Hill", description |-> "Scenic hill",
                 location |-> "Chichod", category |-> "landmark"],
                [name |-> "Osam Hill", location |-> "Chichod", category |-> "bogus"]}

PlaceUpdates == {[category |-> "viewpoint", has_parking |-> TRUE]}

EventBodies == {[name |-> "Fair", description |-> "Village fair", event_type |-> "fair",
                 location |-> "Osam", start_date |-> <<1>>, end_date |-> <<2>>]}

EventUpdates == {[event_type |-> "fair"]}

GalleryBodies == {[name |-> "Photos", gallery_type |-> "photos"],
                  [name |-> "Photos", gallery_type |-> "photos", place_id |-> 1]}

GalleryUpdates == {[gallery_type |-> "videos"]}

ImageBodies == {[image_url |-> "/img/2.jpg", title |-> "Temple", image_order |-> 2]}

Orders == {(1 :> 2)}

\* The admin-gated requests on content
ContentRequest(token) ==
    \/ \E body \in PlaceBodies : create_place(token, body)
    \/ \E body \in PlaceUpdates : update_place(token, 1, body)
    \/ delete_place(token, 1)
    \/ toggle_place_featured(token, 1)
    \/ \E body \in EventBodies : create_event(token, body)
    \/ \E body \in EventUpdates : update_event(token, 1, body)
    \/ delete_event(token, 1)
    \/ update_event_status(token, 1)
    \/ toggle_event_featured(token, 1)
    \/ \E body \in GalleryBodies : create_gallery(token, body)
    \/ \E body \in GalleryUpdates : update_gallery(token, 1, body)
    \/ delete_gallery(token, 1)
    \/ toggle_gallery_featured(token, 1)
    \/ \E body \in ImageBodies : add_image_to_gallery(token, 2, body)
    \/ \E image_id \in 1..MaxImages : remove_image_from_gallery(token, 2, image_id)
    \/ \E order \in Orders : reorder_gallery_images(token, 2, order)
    \/ \E image_id \in 1..MaxImages : set_featured_image(token, 2, image_id)

\* The admin-gated requests on accounts
AccountRequest(token) ==
    \/ \E a \in NewAccounts, role \in Roles, db_ok \in BOOLEAN :
          admin_create_user(token, a[1], a[2], EditorPw, role, 1, db_ok)
    \/ \E user_id \in UserIds : admin_activate_user(token, user_id)
    \/ \E user_id \in UserIds : admin_deactivate_user(token, user_id)
    \/ \E user_id \in UserIds : admin_promote_user(token, user_id)
    \/ \E user_id \in UserIds : admin_demote_user(token, user_id)
    \/ admin_list_users(token)
    \/ \E user_id \in UserIds : admin_delete_user(token, user_id)

\* The same requests, for one new account and the seeded editor
GateAccountRequest(token) ==
    \/ \E db_ok \in BOOLEAN :
          admin_create_user(token, "carol", "carol@example.com", EditorPw, "editor",
                            1, db_ok)
    \/ admin_activate_user(token, 2)
    \/ admin_deactivate_user(token, 2)
    \/ admin_promote_user(token, 2)
    \/ admin_demote_user(token, 2)
    \/ admin_list_users(token)
    \/ admin_delete_user(token, 2)

\* The instant of SpecGate: a token issued at 0 has expired
GateNow == ttl_ticks + TicksPerSecond

InitGate ==
    /\ users \in SeedStores
    /\ next_user_id = 3
    /\ issued = {SeedToken(users, 1, 0), SeedToken(users, 1, GateNow),
                 SeedToken(users, 2, GateNow)}
    /\ now = GateNow
    /\ resp = NoResp
    /\ sess = Idle
    /\ \E c \in SeedContents :
          /\ places = c.places /\ events = c.events
          /\ galleries = c.galleries /\ images = c.images
          /\ next_image_id = c.next_image_id

NextGate ==
    \/ \E token \in Creds : ContentRequest(token)
    \/ \E token \in Creds : GateAccountRequest(token)

SpecGate == InitGate /\ [][NextGate]_vars

-----------------------------------------------------------------------------
(* Spec: the authentication and user-management endpoints *)

Init ==
    /\ users \in SeedStores
    /\ next_user_id = 3
    /\ issued = IF users[2].is_active THEN {} ELSE {SeedToken(users, 2, 0)}
    /\ now = 0
    /\ resp = NoResp
    /\ sess = Idle
    /\ NoContent

Next ==
    \/ \E username \in {"admin", "bob", "carol"}, password \in {AdminPw, EditorPw} :
          login(username, password)
    \/ \E a \in NewAccounts, role \in Roles, db_ok \in BOOLEAN :
          register(a[1], a[2], EditorPw, role, 1, db_ok)
    \/ \E token \in Creds : AccountRequest(token)
    \/ \E token \in Creds : get_current_user_info(token)
    \/ \E token \in Creds, cur \in {AdminPw, EditorPw} :
          change_password(token, cur, EditorPw, 1)
    \/ \E token \in Creds : logout(token)
    \/ Elapse

Spec == Init /\ [][Next]_vars

-----------------------------------------------------------------------------
(* Properties *)

\* The gate as the contract words it: the token verifies, its user exists
\* and is active
Authenticated(token) ==
    /\ verify_token(token, now) # None
    /\ token.user_id \in Ids(users)
    /\ users[token.user_id].is_active

\* ... and the stored role of that user is admin
Admitted(token) == Authenticated(token) /\ users[token.user_id].role = "admin"

StoreUnchanged == UNCHANGED <<accounts, content>>

Admins(U) == {i \in Ids(U) : U[i].role = "admin"}

Unique(U) ==
    \A i, j \in Ids(U) :
        i # j => U[i].username # U[j].username /\ U[i].email # U[j].email

Taken(U, username, email) ==
    \E i \in Ids(U) : U[i].username = username \/ U[i].email = email

\* The admin-gated request, if any, that a step answers to the bearer of
\* token: ContentRequest(token) \/ GateAccountRequest(token), told apart by
\* the handler named in the response
GatedRequest(token) ==
    \/ resp'.op = "create_place"
       /\ \E body \in PlaceBodies : create_place(token, body)
    \/ resp'.op = "update_place"
       /\ \E body \in PlaceUpdates : update_place(token, 1, body)
    \/ resp'.op = "delete_place" /\ delete_place(token, 1)
    \/ resp'.op = "toggle_place_featured" /\ toggle_place_featured(token, 1)
    \/ resp'.op = "create_event"
       /\ \E body \in EventBodies : create_event(token, body)
    \/ resp'.op = "update_event"
       /\ \E body \in EventUpdates : update_event(token, 1, body)
    \/ resp'.op = "delete_event" /\ delete_event(token, 1)
    \/ resp'.op = "update_event_status" /\ update_event_status(token, 1)
    \/ resp'.op = "toggle_event_featured" /\ toggle_event_featured(token, 1)
    \/ resp'.op = "create_gallery"
       /\ \E body \in GalleryBodies : create_gallery(token, body)
    \/ resp'.op = "update_gallery"
       /\ \E body \in GalleryUpdates : update_gallery(token, 1, body)
    \/ resp'.op = "delete_gallery" /\ delete_gallery(token, 1)
    \/ resp'.op = "toggle_gallery_featured" /\ toggle_gallery_featured(token, 1)
    \/ resp'.op = "add_image_to_gallery"
       /\ \E body \in ImageBodies : add_image_to_gallery(token, 2, body)
    \/ resp'.op = "remove_image_from_gallery"
       /\ \E image_id \in 1..MaxImages : remove_image_from_gallery(token, 2, image_id)
    \/ resp'.op = "reorder_gallery_images"
       /\ \E order \in Orders : reorder_gallery_images(token, 2, order)
    \/ resp'.op = "set_featured_image"
       /\ \E image_id \in 1..MaxImages : set_featured_image(token, 2, image_id)
    \/ resp'.op = "admin_create_user"
       /\ \E db_ok \in BOOLEAN :
             admin_create_user(token, "carol", "carol@example.com", EditorPw,
                               "editor", 1, db_ok)
    \/ resp'.op = "admin_activate_user" /\ admin_activate_user(token, 2)
    \/ resp'.op = "admin_deactivate_user" /\ admin_deactivate_user(token, 2)
    \/ resp'.op = "admin_promote_user" /\ admin_promote_user(token, 2)
    \/ resp'.op = "admin_demote_user" /\ admin_demote_user(token, 2)
    \/ resp'.op = "admin_list_users" /\ admin_list_users(token)
    \/ resp'.op = "admin_delete_user" /\ admin_delete_user(token, 2)

C2_DeactivationRevokes ==
    [][\A token \in Creds, user_id \in UserIds :
          (/\ admin_deactivate_user(token, user_id)
           /\ Admitted(token)
           /\ user_id \in Ids(users)) =>
              \A tk \in Tokens :
                  tk.user_id = user_id =>
                      get_current_user(users', tk, now').status = HTTP_401_UNAUTHORIZED]_vars

\* C3 as stated: verify_token returns the claims of an issued token at every
\* instant before issue + TTL and nothing at every instant after it.
C3_RejectedRightAfterTtl ==
    resp.op = "verify_token" =>
        \A e \in issued :
            e.tok = resp.cred =>
                /\ now < e.at + ttl_ticks =>
                      /\ resp.payload # None
                      /\ resp.payload.user_id = e.tok.user_id
                      /\ resp.payload.username = e.tok.username
                      /\ resp.payload.role = e.tok.role
                /\ now > e.at + ttl_ticks => resp.payload = None

\* C3, amended: verify_token returns the claims of an issued token at every
\* instant before issue + TTL and nothing from one whole second after
\* issue + TTL on; exp is compared in whole seconds, so within that second
\* the token may still be accepted.
C3_RejectedASecondAfterTtl ==
    resp.op = "verify_token" =>
        \A e \in issued :
            e.tok = resp.cred =>
                /\ now < e.at + ttl_ticks =>
                      /\ resp.payload # None
                      /\ resp.payload.user_id = e.tok.user_id
                      /\ resp.payload.username = e.tok.username
                      /\ resp.payload.role = e.tok.role
                /\ now >= e.at + ttl_ticks + TicksPerSecond => resp.payload = None

\* An issued token has been verified a second or more after issue + TTL
\* and was rejected.
C3_Witness ==
    /\ resp.op = "verify_token"
    /\ \E e \in issued :
          /\ e.tok = resp.cred
          /\ now >= e.at + ttl_ticks + TicksPerSecond
    /\ resp.payload = None

\* C4: after a successful update_password the passwords authenticate_user
\* accepts for that user are exactly the one just set, provided the user is
\* active, and none otherwise.
C4_OnlyThePasswordSet ==
    [][\A user_id \in UserIds, cur \in Passwords, new \in Passwords, salt \in Salts :
          (UpdatePassword(user_id, cur, new, salt) /\ resp'.ok) =>
              \A p \in Passwords :
                  (authenticate_user(users', users'[user_id].username, p) = user_id)
                      <=> (p = new /\ users'[user_id].is_active)]_vars

\* C5: a register request never changes the set of admin users, and one
\* asking for role admin is answered 403 and adds no user; the set of admins
\* gains a member only in a create-user or promote request of an admitted
\* admin.
C5_NoSelfMadeAdmin ==
    [][/\ \A a \in NewAccounts, role \in Roles, db_ok \in BOOLEAN :
             (resp'.op = "register"
                 /\ register(a[1], a[2], EditorPw, role, 1, db_ok)) =>
                 /\ Admins(users') = Admins(users)
                 /\ role = "admin" =>
                       resp'.status = HTTP_403_FORBIDDEN /\ users' = users
       /\ Admins(users') \ Admins(users) # {} =>
             \E token \in Creds :
                 /\ Admitted(token)
                 /\ \/ \E a \in NewAccounts, db_ok \in BOOLEAN :
                          admin_create_user(token, a[1], a[2], EditorPw, "admin", 1, db_ok)
                    \/ \E user_id \in UserIds : admin_promote_user(token, user_id)]_vars

\* A self-registration asking for role admin has been refused.
C5_Witness ==
    /\ resp.op = "register"
    /\ resp.status = HTTP_403_FORBIDDEN
    /\ Cardinality(Admins(users)) = 1

\* C6: usernames and emails stay unique under every interleaving of the
\* create_user sessions, and a create_user that meets its username or email
\* in the table, at the lookups or at the INSERT, fails and adds no user.
C6_UniqueUnderRaces ==
    [][/\ Unique(users) /\ Unique(users')
       /\ \A s \in 1..NumSessions :
             (create_user_insert(s, TRUE)
                 /\ Taken(users, sess[s].username, sess[s].email)) =>
                 users' = users /\ resp'.status = HTTP_400_BAD_REQUEST
       /\ \A s \in 1..NumSessions, username \in {"bob", "carol"},
             email \in {"bob@example.com", "carol@example.com"} :
             (register_begin(s, username, email, "editor")
                 /\ Taken(users, username, email)) =>
                 /\ users' = users /\ sess' = sess
                 /\ resp'.status = HTTP_400_BAD_REQUEST]_vars

\* A session passed both lookups, another session committed its row first,
\* and the INSERT of the first was refused: two users, one failure.
C6_Witness ==
    /\ resp.status = HTTP_400_BAD_REQUEST
    /\ resp.detail = "Failed to create user"
    /\ Cardinality(Ids(users)) = 2

\* C7 as stated: an admin's delete-user request for their own id is answered
\* 403 Forbidden and leaves the users table as it was.
C7_SelfDeleteForbidden ==
    [][\A token \in Creds, user_id \in UserIds :
          (/\ resp'.op = "admin_delete_user"
           /\ Admitted(token)
           /\ user_id = token.user_id
           /\ admin_delete_user(token, user_id)) =>
              resp'.status = HTTP_403_FORBIDDEN /\ users' = users]_vars

\* C7, amended: an admin's delete-user request for their own id is answered
\* 400 Bad Request, "Cannot delete your own account", and leaves the users
\* table as it was.
C7_SelfDeleteBadRequest ==
    [][\A token \in Creds, user_id \in UserIds :
          (/\ resp'.op = "admin_delete_user"
           /\ Admitted(token)
           /\ user_id = token.user_id
           /\ admin_delete_user(token, user_id)) =>
              /\ resp'.status = HTTP_400_BAD_REQUEST
              /\ resp'.detail = "Cannot delete your own account"
              /\ users' = users]_vars

\* An admin's request to delete their own account has been refused.
C7_Witness ==
    /\ resp.op = "admin_delete_user"
    /\ resp.status = HTTP_400_BAD_REQUEST
    /\ 1 \in Ids(users)

\* C8: an admin's deactivate request for an existing user succeeds and
\* leaves the user deactivated, whether or not the user was active before;
\* activate, promote and demote likewise reach their target state.
C8_MutatorsReachTarget ==
    [][\A token \in Creds, user_id \in UserIds :
          (Admitted(token) /\ user_id \in Ids(users)) =>
              /\ admin_deactivate_user(token, user_id) =>
                    resp'.status = HTTP_200_OK /\ ~users'[user_id].is_active
              /\ admin_activate_user(token, user_id) =>
                    resp'.status = HTTP_200_OK /\ users'[user_id].is_active
              /\ admin_promote_user(token, user_id) =>
                    resp'.status = HTTP_200_OK /\ users'[user_id].role = "admin"
              /\ admin_demote_user(token, user_id) =>
                    resp'.status = HTTP_200_OK /\ users'[user_id].role = "editor"]_vars

\* C9: an admin's activate, deactivate, promote, demote or delete request for
\* a user id that is not in the table is answered 404 and leaves the table
\* as it was.
C9_UnknownUserNotFound ==
    [][\A token \in Creds, user_id \in UserIds :
          (/\ Admitted(token)
           /\ user_id \notin Ids(users)
           /\ \/ admin_activate_user(token, user_id)
              \/ admin_deactivate_user(token, user_id)
              \/ admin_promote_user(token, user_id)
              \/ admin_demote_user(token, user_id)
              \/ admin_delete_user(token, user_id)) =>
              resp'.status = HTTP_404_NOT_FOUND /\ users' = users]_vars

\* C10: update_password succeeds only for an existing user whose current
\* password verifies; after success the new password authenticates (for an
\* active user) and the old one, when it differs from the new, does not;
\* after failure the table is as it was.
C10_OldPasswordRetired ==
    [][\A user_id \in UserIds, cur \in Passwords, new \in Passwords, salt \in Salts :
          UpdatePassword(user_id, cur, new, salt) =>
              IF resp'.ok
              THEN /\ user_id \in Ids(users)
                   /\ verify_password(cur, users[user_id].password_hash)
                   /\ users[user_id].is_active =>
                         authenticate_user(users', users[user_id].username, new) = user_id
                   /\ cur # new =>
                         authenticate_user(users', users[user_id].username, cur) = 0
              ELSE /\ users' = users
                   /\ resp'.detail \in {"User not found", "Current password is incorrect"}]_vars

-----------------------------------------------------------------------------
(* SpecViews: get_by_id, update and toggle_featured of one place and one    *)
(* gallery in concurrent database sessions.  A session's SELECT loads the   *)
(* row; view_count += 1 is computed on the loaded object and flushed at     *)
(* commit as UPDATE ... SET view_count = <the value computed>.  An UPDATE   *)
(* writes only the columns the session assigned, and updated_at (onupdate). *)

\* A get_by_id that counts every lookup twice
GalleryService_get_by_id_twice(G, gallery_id, t) ==
    IF gallery_id \notin DOMAIN G THEN Done("None", "", G)
    ELSE Done("gallery", "",
              [G EXCEPT ![gallery_id].view_count = @ + 2, ![gallery_id].updated_at = t])

\* GalleryService.get_by_id: the row is read, view_count += 1 is committed,
\* and updated_at is set by its onupdate=datetime.utcnow
GalleryService_get_by_id(G, gallery_id, t) ==
    IF gallery_id \notin DOMAIN G THEN Done("None", "", G)
    ELSE Done("gallery", "",
              [G EXCEPT ![gallery_id].view_count = @ + 1, ![gallery_id].updated_at = t])

Kinds == {"place", "gallery"}

\* The committed table of a kind
Table(kind) == IF kind = "place" THEN places
              ELSE IF kind = "gallery" THEN galleries ELSE events

\* A session between the SELECT and the commit of a service call
Loaded(c, pc, op, kind, id, row, kwargs) ==
    [pc |-> pc, op |-> op, kind |-> kind, id |-> id, row |-> row,
     kwargs |-> kwargs, lookups |-> c.lookups]

\* A session between requests; lookups counts the get_by_id calls it completed
Rested(c) == [pc |-> "idle", lookups |-> c.lookups]

Looked(c, kind) ==
    [pc |-> "idle", lookups |-> [c.lookups EXCEPT ![kind] = @ + 1]]

\* UPDATE <table> SET <columns> = <values of row> WHERE <pk> = id
flush(T, id, row, columns) ==
    [T EXCEPT ![id] = [k \in DOMAIN @ |-> IF k \in columns THEN row[k] ELSE @[k]]]

\* get_by_id as the session sees it: the loaded object after view_count += 1
viewed(kind, id, row) ==
    IF kind = "place" THEN PlaceService_get_by_id(id :> row, id, now).table[id]
    ELSE GalleryService_get_by_id(id :> row, id, now).table[id]

\* db.query(...).filter(pk == id).first() of get_by_id, called by the GET
\* endpoint ("get_by_id") or by PlaceService.update ("update")
get_by_id_select(s, op, kind, id, kwargs) ==
    /\ sess[s].pc = "idle"
    /\ sess[s].lookups[kind] < MaxLookups
    /\ IF id \notin DOMAIN Table(kind)
       THEN /\ resp' = Reply(kind \o "." \o op, HTTP_404_NOT_FOUND, "None")
            /\ UNCHANGED sess
       ELSE /\ sess' = [sess EXCEPT ![s] =
                           Loaded(@, "viewing", op, kind, id, Table(kind)[id], kwargs)]
            /\ UNCHANGED resp
    /\ UNCHANGED <<accounts, issued, now, content>>

\* self._commit() of get_by_id.  PlaceService.update goes on with the object
\* reloaded (expire_on_commit) and validates the category.
get_by_id_commit(s) ==
    LET c == sess[s]
        T == flush(Table(c.kind), c.id, viewed(c.kind, c.id, c.row),
                   {"view_count", "updated_at"})
    IN
    /\ c.pc = "viewing"
    /\ places' = IF c.kind = "place" THEN T ELSE places
    /\ galleries' = IF c.kind = "gallery" THEN T ELSE galleries
    /\ IF c.op = "get_by_id"
       THEN /\ sess' = [sess EXCEPT ![s] = Looked(c, c.kind)]
            /\ resp' = Reply(c.kind \o ".get_by_id", HTTP_200_OK, "")
       ELSE IF "category" \in DOMAIN c.kwargs /\ c.kwargs.category \notin valid_categories
       THEN /\ sess' = [sess EXCEPT ![s] = Looked(c, c.kind)]
            /\ resp' = Reply(c.kind \o ".update", HTTP_400_BAD_REQUEST, "Invalid category")
       ELSE /\ sess' = [sess EXCEPT ![s] =
                           Loaded(Looked(c, c.kind), "writing", "update", c.kind,
                                  c.id, T[c.id], c.kwargs)]
            /\ UNCHANGED resp
    /\ UNCHANGED <<accounts, issued, now, events, images, next_image_id>>

\* GalleryService.update and toggle_featured of both services query the row
\* themselves, without get_by_id
plain_select(s, op, kind, id, kwargs) ==
    /\ sess[s].pc = "idle"
    /\ IF id \notin DOMAIN Table(kind)
       THEN /\ resp' = Reply(kind \o "." \o op, HTTP_404_NOT_FOUND, "None")
            /\ UNCHANGED sess
       ELSE IF op = "update" /\ "gallery_type" \in DOMAIN kwargs
               /\ kwargs.gallery_type \notin gallery_valid_types
       THEN /\ resp' = Reply(kind \o "." \o op, HTTP_400_BAD_REQUEST,
                             "Invalid gallery_type")
            /\ UNCHANGED sess
       ELSE /\ sess' = [sess EXCEPT ![s] =
                           Loaded(@, "writing", op, kind, id, Table(kind)[id], kwargs)]
            /\ UNCHANGED resp
    /\ UNCHANGED <<accounts, issued, now, content>>

\* The columns an update assigns: the keys hasattr lets through, and updated_at
assigned(kind, kwargs) ==
    (DOMAIN kwargs \cap (IF kind = "place" THEN Place_columns \ {"place_id"}
                         ELSE Gallery_columns \ {"gallery_id"}))
    \cup {"updated_at"}

\* The setattr loop and self._commit() of update, or the flip and
\* self._commit() of toggle_featured
write_commit(s) ==
    LET c == sess[s]
        T == IF c.op = "update"
             THEN flush(Table(c.kind), c.id,
                        [k \in DOMAIN c.row |->
                            IF k = "updated_at" THEN now
                            ELSE IF k \in DOMAIN c.kwargs THEN c.kwargs[k]
                            ELSE c.row[k]],
                        assigned(c.kind, c.kwargs))
             ELSE flush(Table(c.kind), c.id,
                        [c.row EXCEPT !.is_featured = ~@, !.updated_at = now],
                        {"is_featured", "updated_at"})
    IN
    /\ c.pc = "writing"
    /\ places' = IF c.kind = "place" THEN T ELSE places
    /\ galleries' = IF c.kind = "gallery" THEN T ELSE galleries
    /\ sess' = [sess EXCEPT ![s] = Rested(c)]
    /\ resp' = Reply(c.kind \o "." \o c.op, HTTP_200_OK, "")
    /\ UNCHANGED <<accounts, issued, now, events, images, next_image_id>>

\* What PATCH bodies carry: PlaceUpdate and GalleryUpdate have no view_count
ViewUpdates(kind) ==
    IF kind = "place" THEN {[name |-> "Osam Hill Fort"], [category |-> "castle"]}
    ELSE {[name |-> "Monsoon"], [gallery_type |-> "slides"]}

NoLookups == [k \in Kinds |-> 0]

InitViews ==
    /\ users = (1 :> AdminRow)
    /\ next_user_id = 2
    /\ issued = {}
    /\ now = 1
    /\ resp = NoResp
    /\ sess = [s \in 1..NumSessions |-> [pc |-> "idle", lookups |-> NoLookups]]
    /\ \E kind \in Kinds :
          /\ places = IF kind = "place" THEN (1 :> SeedPlace) ELSE Empty
          /\ galleries = IF kind = "gallery" THEN (1 :> SeedGallery(0, 1)) ELSE Empty
    /\ events = Empty
    /\ images = Empty
    /\ next_image_id = 1

NextViews ==
    \/ \E s \in 1..NumSessions, kind \in Kinds, id \in 1..2 :
          get_by_id_select(s, "get_by_id", kind, id, <<>>)
    \/ \E s \in 1..NumSessions, id \in 1..2, kwargs \in ViewUpdates("place") :
          get_by_id_select(s, "update", "place", id, kwargs)
    \/ \E s \in 1..NumSessions : get_by_id_commit(s)
    \/ \E s \in 1..NumSessions, id \in 1..2, kwargs \in ViewUpdates("gallery") :
          plain_select(s, "update", "gallery", id, kwargs)
    \/ \E s \in 1..NumSessions, kind \in Kinds, id \in 1..2 :
          plain_select(s, "toggle_featured", kind, id, <<>>)
    \/ \E s \in 1..NumSessions : write_commit(s)

SpecViews == InitViews /\ [][NextViews]_vars

-----------------------------------------------------------------------------
(* Properties of the view counters *)

RECURSIVE lookups_upto(_, _)
\* get_by_id calls on the kind completed by sessions 1..n
lookups_upto(kind, n) ==
    IF n = 0 THEN 0 ELSE sess[n].lookups[kind] + lookups_upto(kind, n - 1)

\* C11: under any interleaving of get_by_id, update and toggle_featured in
\* separate sessions the stored view_count of a place or gallery never
\* decreases from one committed state to the next.
C11_ViewCountNeverDecreases ==
    [][/\ \A i \in DOMAIN places : places'[i].view_count >= places[i].view_count
       /\ \A i \in DOMAIN galleries :
             galleries'[i].view_count >= galleries[i].view_count]_vars

\* C12: whatever the interleaving, once N >= 1 lookups of an entity have
\* returned it, its view_count has grown by at least 1 and at most N (the
\* seeded count is 0); before the first one it has not grown.
C12_GrowthWithinLookups ==
    \A kind \in Kinds :
        LET n == lookups_upto(kind, NumSessions)
        IN \A i \in DOMAIN Table(kind) :
              LET v == Table(kind)[i].view_count
              IN IF n = 0 THEN v = 0 ELSE 1 <= v /\ v <= n

\* C12, the lost update: two sessions each completed one lookup of place 1,
\* both got the place, and the stored count grew by 1 only.
C12_Witness ==
    /\ \A s \in 1..NumSessions : sess[s] = [pc |-> "idle", lookups |-> [NoLookups EXCEPT !["place"] = 1]]
    /\ resp = Reply("place.get_by_id", HTTP_200_OK, "")
    /\ places[1].view_count = 1


-----------------------------------------------------------------------------
(* SpecService: the services called one at a time by a single caller, who   *)
(* notes the row it saw before an update and reads the entity back.         *)

\* EventService.get_by_id: a plain query
EventService_get_by_id(E, event_id) ==
    IF event_id \notin DOMAIN E THEN Done("None", "", E)
    ELSE Done("event", "", E)

\* What a service call returned: the value is <<>> for None and for an
\* exception, <<row>> for an entity
Answer(op, ret, value) == [op |-> op, status |-> ret, detail |-> value]

AllKinds == {"place", "event", "gallery"}

get_by_id(kind, T, id, t) ==
    IF kind = "place" THEN PlaceService_get_by_id(T, id, t)
    ELSE IF kind = "gallery" THEN GalleryService_get_by_id(T, id, t)
    ELSE EventService_get_by_id(T, id)

update(kind, T, id, kwargs, t) ==
    IF kind = "place" THEN PlaceService_update(T, id, kwargs, t)
    ELSE IF kind = "gallery" THEN GalleryService_update(T, id, kwargs, t)
    ELSE EventService_update(T, id, kwargs, t)

toggle_featured(kind, T, id, t) ==
    IF kind = "place" THEN PlaceService_toggle_featured(T, id, t)
    ELSE IF kind = "gallery" THEN GalleryService_toggle_featured(T, id, t)
    ELSE EventService_toggle_featured(T, id, t)

\* The commit of a call on the table of the kind
Commit(kind, T) ==
    /\ places' = IF kind = "place" THEN T ELSE places
    /\ galleries' = IF kind = "gallery" THEN T ELSE galleries
    /\ events' = IF kind = "event" THEN T ELSE events
    /\ UNCHANGED <<images, next_image_id>>

\* The entity a call returned
Entity(r, id) == IF r.ret \in AllKinds THEN <<r.table[id]>> ELSE <<>>

\* The counter a call would raise is below the bound of the model
Countable(kind, id, by) ==
    (kind # "event" /\ id \in DOMAIN Table(kind))
        => Table(kind)[id].view_count + by <= MaxViewCount

\* service.get_by_id(id); a caller who has just updated this entity now holds
\* what it read back
Service_get_by_id(kind, id) ==
    LET r == get_by_id(kind, Table(kind), id, now)
        c == sess[1]
    IN
    /\ Countable(kind, id, 1)
    /\ Commit(kind, r.table)
    /\ resp' = Answer(kind \o ".get_by_id", r.ret, Entity(r, id))
    /\ sess' = IF c.pc = "updated" /\ c.kind = kind /\ c.id = id
               THEN [sess EXCEPT ![1].pc = "got"]
               ELSE Idle
    /\ UNCHANGED <<accounts, issued, now>>

\* service.update(id, **kwargs); the caller notes the row as it was before
Service_update(kind, id, kwargs) ==
    LET r == update(kind, Table(kind), id, kwargs, now) IN
    /\ Countable(kind, id, 2)
    /\ Commit(kind, r.table)
    /\ resp' = Answer(kind \o ".update", r.ret, Entity(r, id))
    /\ sess' = IF r.ret \in AllKinds
               THEN [Idle EXCEPT ![1] = [pc |-> "updated", kind |-> kind, id |-> id,
                                         kwargs |-> kwargs,
                                         before |-> Table(kind)[id]]]
               ELSE Idle
    /\ UNCHANGED <<accounts, issued, now>>

\* service.toggle_featured(id)
Service_toggle_featured(kind, id) ==
    LET r == toggle_featured(kind, Table(kind), id, now) IN
    /\ Commit(kind, r.table)
    /\ resp' = Answer(kind \o ".toggle_featured", r.ret, Entity(r, id))
    /\ sess' = Idle
    /\ UNCHANGED <<accounts, issued, now>>

\* Keyword arguments of update: a field, a field with the primary key, and a
\* value the service refuses
ServiceUpdates(kind) ==
    IF kind = "place"
    THEN {[name |-> "Osam Hill Fort"], [category |-> "viewpoint", place_id |-> 2],
          [category |-> "castle"]}
    ELSE IF kind = "gallery"
    THEN {[name |-> "Monsoon"], [gallery_type |-> "videos", gallery_id |-> 2],
          [gallery_type |-> "slides"]}
    ELSE {[name |-> "Shivratri Fair"], [status |-> "completed", event_id |-> 2],
          [start_date |-> <<2>>], [event_type |-> "concert"]}

InitService ==
    /\ users = (1 :> AdminRow)
    /\ next_user_id = 2
    /\ issued = {}
    /\ now = 1
    /\ resp = Answer("", "", <<>>)
    /\ sess = Idle
    /\ \E kind \in AllKinds :
          /\ places = IF kind = "place" THEN (1 :> SeedPlace) ELSE Empty
          /\ galleries = IF kind = "gallery" THEN (1 :> SeedGallery(0, 1)) ELSE Empty
          /\ events = IF kind = "event" THEN (1 :> SeedEvent) ELSE Empty
    /\ images = Empty
    /\ next_image_id = 1

NextService ==
    \/ \E kind \in AllKinds, id \in 1..2 : Service_get_by_id(kind, id)
    \/ \E kind \in AllKinds, id \in 1..2 :
          \E kwargs \in ServiceUpdates(kind) : Service_update(kind, id, kwargs)
    \/ \E kind \in AllKinds, id \in 1..2 : Service_toggle_featured(kind, id)

SpecService == InitService /\ [][NextService]_vars

-----------------------------------------------------------------------------
(* Properties of the services called in sequence *)

\* Every row but the one of id, and every other table, is as it was
OnlyRow(kind, id) ==
    /\ DOMAIN Table(kind)' = DOMAIN Table(kind)
    /\ \A i \in DOMAIN Table(kind) \ {id} : Table(kind)'[i] = Table(kind)[i]
    /\ kind # "place" => UNCHANGED places
    /\ kind # "gallery" => UNCHANGED galleries
    /\ kind # "event" => UNCHANGED events
    /\ UNCHANGED <<images, next_image_id, accounts>>

\* C13: without concurrency a get_by_id of an existing place or gallery
\* returns it, stores its view_count raised by exactly 1 and changes no other
\* field, row or table; for an id that does not exist it returns None and
\* changes nothing.
C13_LookupCountsOnce ==
    [][\A kind \in Kinds, id \in 1..2 :
          Service_get_by_id(kind, id) =>
              IF id \in DOMAIN Table(kind)
              THEN /\ Table(kind)'[id] = [Table(kind)[id] EXCEPT !.view_count = @ + 1]
                   /\ OnlyRow(kind, id)
                   /\ resp'.status = kind /\ resp'.detail = <<Table(kind)'[id]>>
              ELSE /\ UNCHANGED <<accounts, content>>
                   /\ resp'.status = "None" /\ resp'.detail = <<>>]_vars

\* C13: a gallery was looked up twice and a lookup of a missing id followed
C13_Witness ==
    /\ galleries # Empty /\ galleries[1].view_count = 2
    /\ resp = Answer("gallery.get_by_id", "None", <<>>)

\* Fields of the entity read back that differ from the row noted before the
\* update
differing == {f \in DOMAIN sess[1].before : resp.detail[1][f] # sess[1].before[f]}

\* C14 as stated: update(id, {field: v}) followed by get_by_id(id) returns an
\* entity that differs from the one before the update in the supplied fields
\* and the last-modified timestamp only.
C14_OnlySuppliedFieldsDiffer ==
    sess[1].pc = "got" =>
        differing \subseteq (DOMAIN sess[1].kwargs \cup {"updated_at"})

\* C14 amended: the entity read back differs in the supplied fields, the
\* timestamp and the view counter only; the counter of a gallery is 1 higher
\* (the get_by_id that reads it back), that of a place 2 higher (update looks
\* the place up through get_by_id as well); an event differs in the supplied
\* fields and the timestamp only.  The entity is found under the id the
\* update was given, whatever primary key the keyword arguments carry.
C14_SuppliedFieldsAndViewCount ==
    sess[1].pc = "got" =>
        LET c == sess[1] IN
        /\ resp.status = c.kind
        /\ differing \subseteq
              (DOMAIN c.kwargs \cup {"updated_at"}
                 \cup (IF c.kind = "event" THEN {} ELSE {"view_count"}))
        /\ \A f \in DOMAIN c.kwargs \cap DOMAIN c.before : resp.detail[1][f] = c.kwargs[f]
        /\ resp.detail[1].updated_at = now
        /\ c.kind = "gallery" => resp.detail[1].view_count = c.before.view_count + 1
        /\ c.kind = "place" => resp.detail[1].view_count = c.before.view_count + 2
        /\ DOMAIN Table(c.kind) = {1}

\* C14: a featured place was given a new category together with another
\* primary key and read back
C14_Witness ==
    /\ sess[1].pc = "got" /\ sess[1].kind = "place"
    /\ sess[1].kwargs = [category |-> "viewpoint", place_id |-> 2]
    /\ sess[1].before.is_featured /\ sess[1].before.category = "landmark"
    /\ resp.detail[1].category = "viewpoint"


-----------------------------------------------------------------------------
(* SpecImages: the image operations of GalleryService and the deletion of   *)
(* a gallery in concurrent database sessions.  The SELECTs of a call read   *)
(* one snapshot; its INSERT, UPDATEs and DELETEs meet the tables as         *)
(* committed, and gallery_images.gallery_id is a foreign key to galleries.  *)

\* GalleryService.get_gallery_images: the ids of the images of the gallery
\* by ascending image_order (equal orders by id)
RECURSIVE ordered(_, _)
ordered(I, ids) ==
    IF ids = {} THEN <<>>
    ELSE LET i == CHOOSE a \in ids :
                     \A b \in ids : \/ I[a].image_order < I[b].image_order
                                    \/ (I[a].image_order = I[b].image_order /\ a <= b)
         IN <<i>> \o ordered(I, ids \ {i})

GalleryService_get_gallery_images(I, gallery_id) ==
    ordered(I, {i \in DOMAIN I : I[i].gallery_id = gallery_id})

\* gallery_images without the foreign key
fk_allows_always(G, I, gallery_id) == TRUE

\* A gallery_images row may be inserted, and a galleries row deleted, only
\* as ForeignKey('galleries.gallery_id') allows
fk_allows(G, I, gallery_id) == gallery_id \in DOMAIN G

\* Rows of the session's objects that differ from what it loaded
dirty(seen, J) == {i \in DOMAIN seen : J[i] # seen[i]}

\* add_image_to_gallery up to the INSERT: the gallery is looked up and the
\* required fields are checked
add_image_select(s, gallery_id, kwargs) ==
    LET r == GalleryService_add_image_to_gallery(galleries, images, next_image_id,
                                                 gallery_id, kwargs)
    IN
    /\ sess[s].pc = "idle"
    /\ next_image_id <= MaxImageRows
    /\ IF r.ret = "image"
       THEN /\ sess' = [sess EXCEPT ![s] = [pc |-> "adding", gallery_id |-> gallery_id,
                                            gallery |-> galleries[gallery_id],
                                            kwargs |-> kwargs]]
            /\ UNCHANGED resp
       ELSE /\ resp' = Reply("add_image_to_gallery",
                             IF r.ret = "None" THEN HTTP_404_NOT_FOUND
                             ELSE HTTP_400_BAD_REQUEST, r.detail)
            /\ UNCHANGED sess
    /\ UNCHANGED <<accounts, issued, now, content>>

\* db.add(image); self._commit() of add_image_to_gallery
add_image_commit(s) ==
    LET c == sess[s]
        r == GalleryService_add_image_to_gallery(c.gallery_id :> c.gallery, images,
                                                 next_image_id, c.gallery_id, c.kwargs)
        ok == fk_allows(galleries, images, c.gallery_id)
    IN
    /\ c.pc = "adding"
    /\ images' = IF ok THEN r.table ELSE images
    /\ next_image_id' = next_image_id + 1
    /\ resp' = IF ok THEN Reply("add_image_to_gallery", HTTP_201_CREATED, "")
               ELSE Reply("add_image_to_gallery", HTTP_500_INTERNAL_SERVER_ERROR,
                          "IntegrityError")
    /\ sess' = [sess EXCEPT ![s] = [pc |-> "idle"]]
    /\ UNCHANGED <<accounts, issued, now, places, events, galleries>>

\* The two queries of set_featured_image
set_featured_select(s, gallery_id, image_id) ==
    LET r == GalleryService_set_featured_image(images, gallery_id, image_id) IN
    /\ sess[s].pc = "idle"
    /\ IF r.ret = "image"
       THEN /\ sess' = [sess EXCEPT ![s] = [pc |-> "featuring", seen |-> images,
                                            objects |-> r.table]]
            /\ UNCHANGED resp
       ELSE /\ resp' = Reply("set_featured_image", HTTP_404_NOT_FOUND, "None")
            /\ UNCHANGED sess
    /\ UNCHANGED <<accounts, issued, now, content>>

\* self._commit() of set_featured_image: one UPDATE per object whose flag
\* differs from what was loaded; an UPDATE that matches no row raises
\* StaleDataError and the transaction is rolled back
set_featured_commit(s) ==
    LET c == sess[s]
        D == dirty(c.seen, c.objects)
        ok == D \subseteq DOMAIN images
    IN
    /\ c.pc = "featuring"
    /\ images' = IF ok
                 THEN [i \in DOMAIN images |->
                          IF i \in D
                          THEN [images[i] EXCEPT !.is_featured = c.objects[i].is_featured]
                          ELSE images[i]]
                 ELSE images
    /\ resp' = IF ok THEN Reply("set_featured_image", HTTP_200_OK, "")
               ELSE Reply("set_featured_image", HTTP_500_INTERNAL_SERVER_ERROR,
                          "StaleDataError")
    /\ sess' = [sess EXCEPT ![s] = [pc |-> "idle"]]
    /\ UNCHANGED <<accounts, issued, now, places, events, galleries, next_image_id>>

\* remove_image_from_gallery(image_id)
remove_image(s, image_id) ==
    LET r == GalleryService_remove_image_from_gallery(images, image_id) IN
    /\ sess[s].pc = "idle"
    /\ images' = r.table
    /\ resp' = Reply("remove_image_from_gallery",
                     IF r.ret = "True" THEN HTTP_204_NO_CONTENT ELSE HTTP_404_NOT_FOUND,
                     r.ret)
    /\ UNCHANGED <<accounts, issued, now, sess, places, events, galleries,
                   next_image_id>>

\* GalleryService.delete up to db.delete: the gallery is looked up; its
\* gallery_images are loaded from the same snapshot when the delete cascades
delete_gallery_select(s, gallery_id) ==
    /\ sess[s].pc = "idle"
    /\ IF GalleryService_delete(galleries, gallery_id).ret = "True"
       THEN /\ sess' = [sess EXCEPT ![s] =
                           [pc |-> "deleting", gallery_id |-> gallery_id,
                            seen |-> {i \in DOMAIN images :
                                         images[i].gallery_id = gallery_id}]]
            /\ UNCHANGED resp
       ELSE /\ resp' = Reply("GalleryService.delete", HTTP_404_NOT_FOUND, "False")
            /\ UNCHANGED sess
    /\ UNCHANGED <<accounts, issued, now, content>>

\* self._commit() of GalleryService.delete: DELETE of the images loaded, then
\* DELETE of the gallery, refused while another image still refers to it
delete_gallery_commit(s) ==
    LET c == sess[s]
        J == [i \in DOMAIN images \ c.seen |-> images[i]]
        G == GalleryService_delete(galleries, c.gallery_id).table
        ok == \A i \in DOMAIN J : fk_allows(G, J, J[i].gallery_id)
    IN
    /\ c.pc = "deleting"
    /\ images' = IF ok THEN J ELSE images
    /\ galleries' = IF ok THEN G ELSE galleries
    /\ resp' = IF ok THEN Reply("GalleryService.delete", HTTP_204_NO_CONTENT, "True")
               ELSE Reply("GalleryService.delete", HTTP_500_INTERNAL_SERVER_ERROR,
                          "IntegrityError")
    /\ sess' = [sess EXCEPT ![s] = [pc |-> "idle"]]
    /\ UNCHANGED <<accounts, issued, now, places, events, next_image_id>>

\* What POST /galleries/{id}/images carries (GalleryImageCreate)
NewImage == [image_url |-> "/images/osam_hill_2.jpg", title |-> "Monsoon",
             image_order |-> 3]

InitImages ==
    /\ users = (1 :> AdminRow)
    /\ next_user_id = 2
    /\ issued = {}
    /\ now = 1
    /\ resp = NoResp
    /\ sess = Idle
    /\ places = Empty
    /\ events = Empty
    /\ galleries = (1 :> SeedGallery(0, 1))
    /\ images = (1 :> SeedImage(1, 1, FALSE)) @@ (2 :> SeedImage(1, 2, FALSE))
    /\ next_image_id = 3

NextImages ==
    \/ \E s \in 1..NumSessions, gallery_id \in 1..2,
          kwargs \in {NewImage, [NewImage EXCEPT !.title = ""]} :
          add_image_select(s, gallery_id, kwargs)
    \/ \E s \in 1..NumSessions : add_image_commit(s)
    \/ \E s \in 1..NumSessions, gallery_id \in 1..2, image_id \in 1..MaxImageRows :
          set_featured_select(s, gallery_id, image_id)
    \/ \E s \in 1..NumSessions : set_featured_commit(s)
    \/ \E s \in 1..NumSessions, image_id \in 1..MaxImageRows : remove_image(s, image_id)
    \/ \E s \in 1..NumSessions, gallery_id \in 1..2 : delete_gallery_select(s, gallery_id)
    \/ \E s \in 1..NumSessions : delete_gallery_commit(s)

SpecImages == InitImages /\ [][NextImages]_vars

-----------------------------------------------------------------------------
(* Properties of the images of a gallery *)

\* C15: under any interleaving of add_image_to_gallery, set_featured_image
\* and remove_image_from_gallery no gallery has more than one image with
\* is_featured = TRUE.
C15_AtMostOneFeatured ==
    \A i, j \in DOMAIN images :
        (images[i].gallery_id = images[j].gallery_id
            /\ images[i].is_featured /\ images[j].is_featured) => i = j


\* C17: no image ever refers to a gallery that is not stored, also when
\* add_image_to_gallery runs concurrently with the deletion; and once
\* GalleryService.delete has returned True, get_gallery_images of that id is
\* empty and get_by_id of it returns None.
C17_DeleteTakesImagesAlong ==
    /\ [](\A i \in DOMAIN images : images[i].gallery_id \in DOMAIN galleries)
    /\ [][\A s \in 1..NumSessions :
             (delete_gallery_commit(s) /\ resp'.detail = "True") =>
                 /\ GalleryService_get_gallery_images(images', sess[s].gallery_id) = <<>>
                 /\ GalleryService_get_by_id(galleries', sess[s].gallery_id, now).ret = "None"
                 /\ \A i \in sess[s].seen : i \notin DOMAIN images']_vars

\* C17: a gallery was deleted with its images while an add_image_to_gallery
\* that had found the gallery was waiting to insert, and the INSERT was refused
C17_Witness ==
    /\ galleries = Empty /\ images = Empty
    /\ resp = Reply("add_image_to_gallery", HTTP_500_INTERNAL_SERVER_ERROR,
                    "IntegrityError")


-----------------------------------------------------------------------------
(* SpecOrder: reorder_images and get_gallery_images called one at a time *)

\* service.reorder_images(gallery_id, image_order)
Service_reorder_images(gallery_id, image_order) ==
    LET r == GalleryService_reorder_images(images, gallery_id, image_order) IN
    /\ images' = r.table
    /\ resp' = Answer("reorder_images", r.ret, <<>>)
    /\ UNCHANGED <<accounts, issued, now, sess, places, events, galleries,
                   next_image_id>>

\* service.get_gallery_images(gallery_id)
Service_get_gallery_images(gallery_id) ==
    /\ resp' = Answer("get_gallery_images", "list",
                      GalleryService_get_gallery_images(images, gallery_id))
    /\ UNCHANGED <<accounts, issued, now, sess, content>>

\* Mappings of image id to new position (ReorderImagesRequest.image_order):
\* one image, images of two galleries, a position already taken, an id that
\* is no image, a swap
Reorders ==
    {(2 :> 10), (1 :> 5) @@ (4 :> 7), (3 :> 1), (5 :> 2), (1 :> 2) @@ (2 :> 1),
     (3 :> 4) @@ (4 :> 2)}

InitOrder ==
    /\ users = (1 :> AdminRow)
    /\ next_user_id = 2
    /\ issued = {}
    /\ now = 1
    /\ resp = Answer("", "", <<>>)
    /\ sess = Idle
    /\ places = Empty
    /\ events = Empty
    /\ galleries = (1 :> SeedGallery(0, 1)) @@ (2 :> SeedGallery(0, 1))
    /\ images = (1 :> SeedImage(1, 1, FALSE)) @@ (2 :> SeedImage(1, 2, FALSE))
                @@ (3 :> SeedImage(1, 3, FALSE)) @@ (4 :> SeedImage(2, 1, FALSE))
    /\ next_image_id = 5

NextOrder ==
    \/ \E gallery_id \in 1..3, image_order \in Reorders :
          Service_reorder_images(gallery_id, image_order)
    \/ \E gallery_id \in 1..3 : Service_get_gallery_images(gallery_id)

SpecOrder == InitOrder /\ [][NextOrder]_vars

-----------------------------------------------------------------------------
(* Properties of the order of images *)

\* C16: reorder_images(gallery_id, mapping) sets image_order to mapping[id]
\* for exactly the images of gallery_id whose id is a key of the mapping, in
\* one commit, and changes nothing else; get_gallery_images returns exactly
\* the images of the gallery, by ascending image_order.
C16_ReorderExactlyTheMapped ==
    [][/\ \A gallery_id \in 1..3, image_order \in Reorders :
             Service_reorder_images(gallery_id, image_order) =>
                 /\ DOMAIN images' = DOMAIN images
                 /\ \A i \in DOMAIN images :
                       images'[i] =
                          IF i \in DOMAIN image_order /\ images[i].gallery_id = gallery_id
                          THEN [images[i] EXCEPT !.image_order = image_order[i]]
                          ELSE images[i]
                 /\ UNCHANGED <<accounts, places, events, galleries, next_image_id>>
       /\ \A gallery_id \in 1..3 :
             Service_get_gallery_images(gallery_id) =>
                 LET got == resp'.detail IN
                 /\ {got[n] : n \in 1..Len(got)}
                       = {i \in DOMAIN images : images[i].gallery_id = gallery_id}
                 /\ \A m, n \in 1..Len(got) :
                       m < n => /\ got[m] # got[n]
                                /\ images[got[m]].image_order <= images[got[n]].image_order
                 /\ UNCHANGED <<accounts, content>>]_vars

\* C16: images 1, 2, 3 at positions 1, 2, 3; after reorder_images(1, {2: 10})
\* get_gallery_images(1) returns them at positions 1, 3, 10
C16_Witness ==
    /\ images[1].image_order = 1 /\ images[2].image_order = 10
    /\ images[3].image_order = 3
    /\ resp = Answer("get_gallery_images", "list", <<1, 3, 2>>)


-----------------------------------------------------------------------------
(* SpecEvents: EventService called one at a time while the days pass.  The  *)
(* caller notes the keyword arguments of its last create.                   *)

\* Ticks of one day
DayTicks == 24 * 60 * 60 * TicksPerSecond

\* A caller who has just called create(**kwargs)
Created(kwargs) == [Idle EXCEPT ![1] = [pc |-> "created", kwargs |-> kwargs]]

\* service.create(**kwargs)
Event_create(kwargs) ==
    LET r == EventService_create(events, kwargs, now) IN
    /\ Cardinality(DOMAIN events) < MaxEvents
    /\ events' = r.table
    /\ resp' = Answer("create", r.ret,
                      IF r.ret = "event" THEN <<r.table[new_id(events)]>> ELSE <<>>)
    /\ sess' = Created(kwargs)
    /\ UNCHANGED <<accounts, issued, now, places, galleries, images, next_image_id>>

\* One call of EventService on an event: what it returns and stores
Event_call(op, r, event_id) ==
    /\ events' = r.table
    /\ resp' = Answer(op, r.ret, Entity(r, event_id))
    /\ sess' = Idle
    /\ UNCHANGED <<accounts, issued, now, places, galleries, images, next_image_id>>

\* service.update(event_id, **kwargs)
Event_update(event_id, kwargs) ==
    Event_call("update", EventService_update(events, event_id, kwargs, now), event_id)

\* service.update_event_status(event_id)
Event_update_event_status(event_id) ==
    Event_call("update_event_status",
               EventService_update_event_status(events, event_id, now), event_id)

\* service.toggle_featured(event_id)
Event_toggle_featured(event_id) ==
    Event_call("toggle_featured",
               EventService_toggle_featured(events, event_id, now), event_id)

\* service.get_by_id(event_id)
Event_get_by_id(event_id) ==
    Event_call("get_by_id", EventService_get_by_id(events, event_id), event_id)

\* EventService.get_events_by_status: the ids of the events with the status
EventService_get_events_by_status(E, status) ==
    IF status \notin {"upcoming", "ongoing", "completed"}
    THEN Done("ValueError", "Invalid status", E)
    ELSE Done("list", "", E)

\* service.get_events_by_status(status), service.get_all() for "all"
Event_list(status) ==
    LET r == IF status = "all" THEN Done("list", "", events)
             ELSE EventService_get_events_by_status(events, status)
    IN
    /\ events' = r.table
    /\ resp' = Answer("get_events_by_status", r.ret,
                      IF r.ret = "list"
                      THEN <<{i \in DOMAIN events :
                                 status = "all" \/ events[i].status = status}>>
                      ELSE <<>>)
    /\ sess' = Idle
    /\ UNCHANGED <<accounts, issued, now, places, galleries, images, next_image_id>>

\* EventService.get_event_summary: get_by_id, update_event_status, get_by_id
EventService_get_event_summary(E, event_id, t) ==
    IF EventService_get_by_id(E, event_id).ret = "None" THEN Done("None", "", E)
    ELSE Done("event", "",
              EventService_get_by_id(
                  EventService_update_event_status(E, event_id, t).table,
                  event_id).table)

\* service.get_event_summary(event_id)
Event_get_event_summary(event_id) ==
    Event_call("get_event_summary",
               EventService_get_event_summary(events, event_id, now), event_id)

\* date.today() moves on
NextDay ==
    /\ today(now) < MaxDay
    /\ now' = now + DayTicks
    /\ resp' = Answer("", "", <<>>)
    /\ sess' = Idle
    /\ UNCHANGED <<accounts, issued, content>>

Statuses == {"upcoming", "ongoing", "completed"}

\* Keyword arguments of create: a start date, with or without an end date
\* and a status; one with the end before the start; one without description
EventKwargs ==
    LET base(d) == [name |-> "Janmashtami Festival", event_type |-> "festival",
                    description |-> "Annual fair", location |-> "Osam Hill",
                    start_date |-> <<d>>]
        dated == {base(d) : d \in 0..MaxDay}
                 \cup {base(d) @@ [end_date |-> <<e>>] : d \in 0..MaxDay, e \in 0..MaxDay}
    IN dated \cup {k @@ [status |-> s] : k \in dated, s \in Statuses}
             \cup {[base(1) EXCEPT !.description = ""]}

\* Keyword arguments of update
EventChanges ==
    {[name |-> "Shivratri Fair"], [end_date |-> <<1>>]}
    \cup {[status |-> s] : s \in Statuses}

InitEvents ==
    /\ users = (1 :> AdminRow)
    /\ next_user_id = 2
    /\ issued = {}
    /\ now = DayTicks
    /\ resp = Answer("", "", <<>>)
    /\ sess = Idle
    /\ places = Empty
    /\ events = Empty
    /\ galleries = Empty
    /\ images = Empty
    /\ next_image_id = 1

NextEvents ==
    \/ \E kwargs \in EventKwargs : Event_create(kwargs)
    \/ \E event_id \in 1..2, kwargs \in EventChanges : Event_update(event_id, kwargs)
    \/ \E event_id \in 1..2 : Event_update_event_status(event_id)
    \/ \E event_id \in 1..2 : Event_toggle_featured(event_id)
    \/ \E event_id \in 1..2 : Event_get_by_id(event_id)
    \/ \E status \in Statuses \cup {"all", "cancelled"} : Event_list(status)
    \/ \E event_id \in 1..2 : Event_get_event_summary(event_id)
    \/ NextDay

SpecEvents == InitEvents /\ [][NextEvents]_vars

-----------------------------------------------------------------------------
(* Properties of the status of an event *)

\* The status the rule of the specification gives an event on a day
status_by_rule(event, day) ==
    IF event.end_date # <<>> /\ day > event.end_date[1] THEN "completed"
    ELSE IF event.start_date[1] <= day
            /\ day <= (IF event.end_date # <<>> THEN event.end_date[1]
                       ELSE event.start_date[1])
    THEN "ongoing"
    ELSE "upcoming"

\* C18: update_event_status stores, whatever the dates, the day and the prior
\* status, completed if there is an end date and today is after it, ongoing
\* if start_date <= today <= (end_date or start_date), and upcoming in every
\* other case.
C18_StatusFollowsTheRule ==
    [][\A event_id \in DOMAIN events :
          (resp'.op = "update_event_status" /\ Event_update_event_status(event_id)) =>
              events'[event_id].status = status_by_rule(events[event_id], today(now))]_vars

\* C19: a create that succeeds stores the status it was given; without one
\* it stores ongoing when start_date <= today and upcoming when start_date is
\* after today.
C19_StatusAtCreation ==
    [][\A kwargs \in EventKwargs :
          (resp'.op = "create" /\ resp'.status = "event" /\ Event_create(kwargs)) =>
              LET event == events'[new_id(events)] IN
              /\ DOMAIN events' = DOMAIN events \cup {new_id(events)}
              /\ resp'.detail = <<event>>
              /\ event.status =
                    IF "status" \in DOMAIN kwargs THEN kwargs.status
                    ELSE IF kwargs.start_date[1] <= today(now) THEN "ongoing"
                    ELSE "upcoming"]_vars

\* C19: an event that started yesterday and has no end date was created
\* without a status and is stored as ongoing
C19_Witness ==
    /\ sess[1].pc = "created" /\ resp.status = "event"
    /\ DOMAIN sess[1].kwargs = {"name", "event_type", "description", "location",
                                "start_date"}
    /\ sess[1].kwargs.start_date = <<today(now) - 1>>
    /\ resp.detail[1].end_date = <<>> /\ resp.detail[1].status = "ongoing"

\* An event that is stored before and after the step has a field changed
touched(event_id) ==
    /\ event_id \in DOMAIN events /\ event_id \in DOMAIN events'
    /\ events'[event_id] # events[event_id]

restatused(event_id) ==
    /\ event_id \in DOMAIN events /\ event_id \in DOMAIN events'
    /\ events'[event_id].status # events[event_id].status

\* C20 as stated: the stored status changes only in update_event_status or in
\* an update that supplies a status, and neither the passage of time nor a
\* read (get_by_id, the lists and filters, get_event_summary) changes a
\* stored field of an event.
C20_OnlyExplicitRederivation ==
    [][\A event_id \in 1..2 :
          /\ restatused(event_id) =>
                \/ resp'.op = "update_event_status" /\ Event_update_event_status(event_id)
                \/ /\ resp'.op = "update"
                   /\ \E kwargs \in EventChanges :
                         "status" \in DOMAIN kwargs /\ Event_update(event_id, kwargs)
          /\ touched(event_id) =>
                resp'.op \notin {"", "get_by_id", "get_events_by_status",
                                 "get_event_summary"}]_vars

\* C20 amended: the stored status changes only in update_event_status, in an
\* update that supplies a status, or in get_event_summary, which calls
\* update_event_status and so stores the derived status and updated_at;
\* neither the passage of time nor get_by_id, a list or a filter changes a
\* stored field of an event.
C20_RederivationAlsoInSummary ==
    [][\A event_id \in 1..2 :
          /\ restatused(event_id) =>
                \/ resp'.op = "update_event_status" /\ Event_update_event_status(event_id)
                \/ resp'.op = "get_event_summary" /\ Event_get_event_summary(event_id)
                \/ /\ resp'.op = "update"
                   /\ \E kwargs \in EventChanges :
                         "status" \in DOMAIN kwargs /\ Event_update(event_id, kwargs)
          /\ touched(event_id) =>
                resp'.op \notin {"", "get_by_id", "get_events_by_status"}
          /\ (/\ resp'.op = "get_event_summary" /\ event_id \in DOMAIN events
              /\ Event_get_event_summary(event_id)) =>
                events'[event_id] =
                   [events[event_id] EXCEPT
                       !.status = derived_status(events[event_id], today(now)),
                       !.updated_at = now]]_vars

\* C20: the days went by and the status of an event stayed upcoming until a
\* get_event_summary, which stored completed
C20_Witness ==
    /\ resp.op = "get_event_summary" /\ resp.status = "event"
    /\ resp.detail[1].status = "completed" /\ resp.detail[1].updated_at = now
    /\ resp.detail[1].end_date = <<1>> /\ today(now) = 2
    /\ events[1] = resp.detail[1]


-----------------------------------------------------------------------------
(* SpecFaults: the service operations of several statements, called one at  *)
(* a time against a store that may raise at any one of their statements.    *)
(* BaseService._commit rolls the open transaction back and re-raises; what  *)
(* an earlier commit of the same call stored stays stored.                  *)

\* The exception the store raised, and the table as it is left
raised(T) == Done("Exception", "OperationalError", T)

\* PlaceService.update with the store failing at statement fail (0: never):
\* 1 the query of get_by_id, 2 the commit of get_by_id, 3 the commit of update
PlaceService_update_failing(P, place_id, kwargs, t, fail) ==
    LET got == PlaceService_get_by_id(P, place_id, t)
        r == PlaceService_update(P, place_id, kwargs, t)
    IN
    IF fail = 1 THEN raised(P)
    ELSE IF got.ret = "None" THEN r
    ELSE IF fail = 2 THEN raised(P)
    ELSE IF fail = 3 /\ r.ret = "place" THEN raised(got.table)
    ELSE r

\* EventService.get_event_summary with the store failing at statement fail:
\* 1 the query of get_by_id, 2 the query of update_event_status, 3 its
\* commit, 4 the query of the second get_by_id
EventService_get_event_summary_failing(E, event_id, t, fail) ==
    LET r == EventService_get_event_summary(E, event_id, t) IN
    IF fail = 1 THEN raised(E)
    ELSE IF r.ret = "None" THEN r
    ELSE IF fail \in {2, 3} THEN raised(E)
    ELSE IF fail = 4 THEN raised(r.table)
    ELSE r

\* An operation of two statements, the query and the commit, with the store
\* failing at statement fail
failing(r, T, fail) ==
    IF fail = 1 THEN raised(T)
    ELSE IF fail = 2 /\ r.table # T THEN raised(T)
    ELSE r

\* service.update(place_id, **kwargs) on a store that may fail
Faulty_place_update(place_id, kwargs, fail) ==
    LET r == PlaceService_update_failing(places, place_id, kwargs, now, fail) IN
    /\ Countable("place", place_id, 1)
    /\ places' = r.table
    /\ resp' = Answer("PlaceService.update", r.ret, Entity(r, place_id))
    /\ UNCHANGED <<accounts, issued, now, sess, events, galleries, images,
                   next_image_id>>

\* service.get_event_summary(event_id) on a store that may fail
Faulty_get_event_summary(event_id, fail) ==
    LET r == EventService_get_event_summary_failing(events, event_id, now, fail) IN
    /\ events' = r.table
    /\ resp' = Answer("EventService.get_event_summary", r.ret, Entity(r, event_id))
    /\ UNCHANGED <<accounts, issued, now, sess, places, galleries, images,
                   next_image_id>>

\* service.delete(gallery_id) on a store that may fail: the DELETEs of the
\* images and of the gallery are one commit
Faulty_gallery_delete(gallery_id, fail) ==
    LET r == failing(GalleryService_delete(galleries, gallery_id), galleries, fail) IN
    /\ galleries' = r.table
    /\ images' = IF r.ret = "True" THEN without_galleries(images, {gallery_id})
                 ELSE images
    /\ resp' = Answer("GalleryService.delete", r.ret, <<>>)
    /\ UNCHANGED <<accounts, issued, now, sess, places, events, next_image_id>>

\* service.reorder_images(gallery_id, image_order) on a store that may fail
Faulty_reorder_images(gallery_id, image_order, fail) ==
    LET r == failing(GalleryService_reorder_images(images, gallery_id, image_order),
                     images, fail)
    IN
    /\ images' = r.table
    /\ resp' = Answer("GalleryService.reorder_images", r.ret, <<>>)
    /\ UNCHANGED <<accounts, issued, now, sess, places, events, galleries,
                   next_image_id>>

\* service.set_featured_image(gallery_id, image_id) on a store that may fail
Faulty_set_featured_image(gallery_id, image_id, fail) ==
    LET r == failing(GalleryService_set_featured_image(images, gallery_id, image_id),
                     images, fail)
    IN
    /\ images' = r.table
    /\ resp' = Answer("GalleryService.set_featured_image", r.ret, <<>>)
    /\ UNCHANGED <<accounts, issued, now, sess, places, events, galleries,
                   next_image_id>>

\* date.today() moves on under the events of SpecFaults
FaultyDay ==
    /\ events # Empty
    /\ today(now) < MaxDay
    /\ now' = now + DayTicks
    /\ resp' = Answer("", "", <<>>)
    /\ UNCHANGED <<accounts, issued, sess, content>>

InitFaults ==
    /\ users = (1 :> AdminRow)
    /\ next_user_id = 2
    /\ issued = {}
    /\ now = DayTicks
    /\ resp = Answer("", "", <<>>)
    /\ sess = Idle
    /\ \E kind \in AllKinds :
          /\ places = IF kind = "place" THEN (1 :> SeedPlace) ELSE Empty
          /\ events = IF kind = "event" THEN (1 :> SeedEvent) ELSE Empty
          /\ galleries = IF kind = "gallery" THEN (1 :> SeedGallery(0, 1)) ELSE Empty
          /\ images = IF kind = "gallery"
                      THEN (1 :> SeedImage(1, 1, TRUE)) @@ (2 :> SeedImage(1, 2, FALSE))
                           @@ (3 :> SeedImage(1, 3, FALSE))
                      ELSE Empty
    /\ next_image_id = 4

NextFaults ==
    \/ \E place_id \in 1..2, kwargs \in ServiceUpdates("place"), fail \in 0..3 :
          Faulty_place_update(place_id, kwargs, fail)
    \/ \E event_id \in 1..2, fail \in 0..4 : Faulty_get_event_summary(event_id, fail)
    \/ \E gallery_id \in 1..2, fail \in 0..2 : Faulty_gallery_delete(gallery_id, fail)
    \/ \E gallery_id \in 1..2, image_order \in Reorders, fail \in 0..2 :
          Faulty_reorder_images(gallery_id, image_order, fail)
    \/ \E gallery_id \in 1..2, image_id \in 1..4, fail \in 0..2 :
          Faulty_set_featured_image(gallery_id, image_id, fail)
    \/ FaultyDay

SpecFaults == InitFaults /\ [][NextFaults]_vars

-----------------------------------------------------------------------------
(* Properties of the operations on a failing store *)

\* C21: when the store fails at any statement of cascading delete,
\* reorder_images, set_featured_image, Place update or get_event_summary, the
\* call raises and nothing it did is stored.
C21_FailedCallStoresNothing ==
    [][resp'.status = "Exception" => UNCHANGED content]_vars


-----------------------------------------------------------------------------
(* SpecCreate: create of the three services called one at a time, with the  *)
(* keyword arguments a caller may pass and the ones the endpoints pass.     *)

create(kind, T, kwargs, t) ==
    IF kind = "place" THEN PlaceService_create(T, kwargs, t)
    ELSE IF kind = "gallery" THEN GalleryService_create(T, kwargs, t)
    ELSE EventService_create(T, kwargs, t)

\* ForeignKey('places.place_id'), ForeignKey('events.event_id') of galleries:
\* the rows a gallery names exist
references_exist(kind, kwargs) ==
    kind = "gallery" =>
        /\ assoc(kwargs, "place_id") \in DOMAIN places \cup {0}
        /\ assoc(kwargs, "event_id") \in DOMAIN events \cup {0}

\* service.create(**kwargs), called with references to rows that exist
Service_create(kind, kwargs) ==
    LET r == create(kind, Table(kind), kwargs, now) IN
    /\ Cardinality(DOMAIN Table(kind)) < MaxCreated
    /\ references_exist(kind, kwargs)
    /\ Commit(kind, r.table)
    /\ resp' = Answer(kind \o ".create", r.ret,
                      IF r.ret = kind THEN <<r.table[new_id(Table(kind))]>> ELSE <<>>)
    /\ UNCHANGED <<accounts, issued, now, sess>>

\* Keyword arguments of create: complete ones, ones with a required field
\* missing or empty or an enumerated field outside its set, and the
\* dictionaries POST /places/ and POST /events/ build from their schemas
CreateKwargs(kind) ==
    LET place == [name |-> "Osam Hill", description |-> "Scenic hill",
                  location |-> "Chichod", category |-> "landmark"]
        event == [name |-> "Fair", description |-> "Village fair",
                  event_type |-> "fair", location |-> "Osam", start_date |-> <<1>>]
        gallery == [name |-> "Photos", gallery_type |-> "photos", place_id |-> 1]
    IN
    IF kind = "place"
    THEN {place, [place EXCEPT !.category = "viewpoint"],
          [f \in DOMAIN place \ {"name"} |-> place[f]],
          [place EXCEPT !.description = ""], [place EXCEPT !.category = "castle"],
          PlaceCreate_dict(place)}
    ELSE IF kind = "event"
    THEN {event, event @@ [end_date |-> <<2>>], event @@ [end_date |-> <<0>>],
          [f \in DOMAIN event \ {"location"} |-> event[f]],
          [event EXCEPT !.event_type = "concert"],
          EventCreate_dict(event @@ [end_date |-> <<2>>])}
    ELSE {gallery, [name |-> "Videos", gallery_type |-> "videos", event_id |-> 1],
          [name |-> "Photos", gallery_type |-> "photos"],
          [gallery EXCEPT !.gallery_type = "slides"], [gallery EXCEPT !.name = ""]}

InitCreate ==
    /\ users = (1 :> AdminRow)
    /\ next_user_id = 2
    /\ issued = {}
    /\ now = DayTicks
    /\ resp = Answer("", "", <<>>)
    /\ sess = Idle
    /\ NoContent

NextCreate ==
    \E kind \in AllKinds : \E kwargs \in CreateKwargs(kind) : Service_create(kind, kwargs)

SpecCreate == InitCreate /\ [][NextCreate]_vars

-----------------------------------------------------------------------------
(* Properties of create *)

\* The fields create requires of a kind, and its enumerated field
required_of(kind) ==
    IF kind = "place" THEN {"name", "description", "location", "category"}
    ELSE IF kind = "event"
    THEN {"name", "event_type", "description", "start_date", "location"}
    ELSE {"name", "gallery_type"}

enumerated(kind) ==
    IF kind = "place" THEN <<"category", valid_categories>>
    ELSE IF kind = "event" THEN <<"event_type", valid_types>>
    ELSE <<"gallery_type", gallery_valid_types>>

\* The keyword arguments pass every validation of create: the required
\* fields are there and not empty, the enumerated field is in its set, an
\* event does not end before it starts, a gallery has an association
validates(kind, kwargs) ==
    /\ \A f \in required_of(kind) :
          f \in DOMAIN kwargs /\ kwargs[f] # (IF f = "start_date" THEN <<>> ELSE "")
    /\ kwargs[enumerated(kind)[1]] \in enumerated(kind)[2]
    /\ (kind = "event" /\ "end_date" \in DOMAIN kwargs)
          => ~ends_before_start(kwargs.start_date, kwargs.end_date)
    /\ kind = "gallery" => \E f \in content_fields : assoc(kwargs, f) # 0

\* C22: create raises a validation error and adds nothing when a required
\* field is missing or empty or the enumerated field is outside its set, and
\* adds exactly one entity when the keyword arguments pass every validation.
C22_CreateAddsOneOrFails ==
    [][\A kind \in AllKinds : \A kwargs \in CreateKwargs(kind) :
          (resp'.op = kind \o ".create" /\ Service_create(kind, kwargs)) =>
              IF validates(kind, kwargs)
              THEN /\ Cardinality(DOMAIN Table(kind)') = Cardinality(DOMAIN Table(kind)) + 1
                   /\ \A i \in DOMAIN Table(kind) : Table(kind)'[i] = Table(kind)[i]
              ELSE /\ resp'.status = "ValueError"
                   /\ UNCHANGED content]_vars


-----------------------------------------------------------------------------
(* Properties of logout and of the failures of the gates (Spec) *)

\* C23: logout changes no state and revokes nothing: the accounts, the
\* content and the tokens in circulation are what they were, every bearer
\* token is answered by the authenticated gate after the logout as before it,
\* and in every state a token that verifies for an active user passes.
C23_LogoutRevokesNothing ==
    /\ [](\A token \in Tokens :
             Authenticated(token) =>
                 get_current_user(users, token, now).status = HTTP_200_OK)
    /\ [][\A token \in Creds :
             (resp'.op = "logout" /\ logout(token)) =>
                 /\ UNCHANGED <<accounts, content, issued, now>>
                 /\ \A tok \in Creds :
                       get_current_user(users', tok, now')
                           = get_current_user(users, tok, now)]_vars

\* A logout was answered with success and its token still passes the gate
C23_Witness ==
    /\ resp.op = "logout"
    /\ resp.status = HTTP_200_OK
    /\ \E token \in Tokens : Authenticated(token)


-----------------------------------------------------------------------------
(* SpecAuth: the gates asked by bearers of valid, expired, tampered and      *)
(* malformed tokens, over user tables in which the token's user is active,   *)
(* inactive or gone.                                                         *)

\* The users table as a deployment may hold it: the editor active, inactive,
\* or deleted from the table after a token was issued to it
AuthStores == SeedStores \cup {(1 :> AdminRow)}

InitAuth ==
    /\ users \in AuthStores
    /\ next_user_id = 3
    /\ issued = {SeedToken((1 :> AdminRow), 1, 0),
                 SeedToken((2 :> EditorRow(TRUE)), 2, HalfLife)}
    /\ now = HalfLife
    /\ resp = NoResp
    /\ sess = Idle
    /\ NoContent

NextAuth ==
    \/ \E token \in Creds : VerifyToken(token)
    \/ \E token \in Creds : get_current_user_info(token)
    \/ \E token \in Creds, cur \in {AdminPw, EditorPw} :
          change_password(token, cur, EditorPw, 1)
    \/ \E token \in Creds : logout(token)
    \/ \E token \in Creds : admin_list_users(token)
    \/ Elapse

SpecAuth == InitAuth /\ [][NextAuth]_vars

-----------------------------------------------------------------------------
(* Properties of the failures of authentication *)

\* The gate refuses the token over the table U
refused(U, token) == get_current_user(U, token, now).status # HTTP_200_OK

\* verify_token has one invalid result: a bad signature, a malformed token
\* and an expired token all give None
one_invalid_result ==
    \A token \in Creds :
        (token.sig # "HS256" \/ token.exp < timegm(now)) =>
            verify_token(token, now) = None

\* C24: failures of authentication are indistinguishable to the caller:
\* verify_token gives the same invalid result for a bad signature, a
\* malformed and an expired token, and every two refusals of the
\* authenticated gate are the same answer, whether the token is invalid, its
\* user does not exist, or its user is inactive.
C24_FailuresIndistinguishable ==
    /\ one_invalid_result
    /\ \A U \in AuthStores : \A t1, t2 \in Creds :
          (refused(users, t1) /\ refused(U, t2)) =>
              get_current_user(users, t1, now) = get_current_user(U, t2, now)

\* C24, as the code has it: verify_token gives the same invalid result for a
\* bad signature, a malformed and an expired token; every two refusals of
\* the authenticated gate carry the same status 401, and the same detail
\* when both tokens are invalid or both verify (a missing user and an
\* inactive one are answered alike), while the detail tells an invalid token
\* from a verified token whose user is missing or inactive.
C24_FailuresShareTheStatus ==
    /\ one_invalid_result
    /\ \A U \in AuthStores : \A t1, t2 \in Creds :
          LET g1 == get_current_user(users, t1, now)
              g2 == get_current_user(U, t2, now)
          IN
          (refused(users, t1) /\ refused(U, t2)) =>
              /\ g1.status = HTTP_401_UNAUTHORIZED
              /\ g2.status = g1.status
              /\ (verify_token(t1, now) = None) = (verify_token(t2, now) = None)
                    => g1 = g2
              /\ (verify_token(t1, now) = None) # (verify_token(t2, now) = None)
                    => g1.detail # g2.detail

\* The gate refused a verified token whose user is gone, in a state where
\* one token has expired and another is tampered
C24_Witness ==
    /\ resp.op = "get_current_user_info"
    /\ resp.status = HTTP_401_UNAUTHORIZED
    /\ resp.detail = "User not found or inactive"
    /\ 2 \notin Ids(users)
    /\ \E token \in Tokens : token.sig = "HS256" /\ token.exp < timegm(now)
    /\ \E token \in Creds : token.sig = "bad"


-----------------------------------------------------------------------------
(* SpecAssoc: GalleryService.create and GalleryService.update called one at *)
(* a time, with keyword arguments that name the association columns.        *)

\* Keyword arguments of GalleryService.update: a column of its own, an
\* association replaced, an association set to None (0), a type outside the set
AssocUpdates ==
    {[name |-> "Monsoon"], [event_id |-> 1], [place_id |-> 0],
     [place_id |-> 0, event_id |-> 0], [gallery_type |-> "slides", place_id |-> 0]}

\* A place and an event for the galleries to name
InitAssoc ==
    /\ users = (1 :> AdminRow)
    /\ next_user_id = 2
    /\ issued = {}
    /\ now = DayTicks
    /\ resp = Answer("", "", <<>>)
    /\ sess = Idle
    /\ places = (1 :> SeedPlace)
    /\ events = (1 :> SeedEvent)
    /\ galleries = Empty
    /\ images = Empty
    /\ next_image_id = 1

NextAssoc ==
    \/ \E kwargs \in CreateKwargs("gallery") : Service_create("gallery", kwargs)
    \/ \E id \in 1..MaxCreated : \E kwargs \in AssocUpdates :
          Service_update("gallery", id, kwargs)

SpecAssoc == InitAssoc /\ [][NextAssoc]_vars

\* The gallery row names a place, a temple, a site or an event
associated(row) == \E f \in content_fields : row[f] # 0

\* C25: every stored gallery has at least one of place_id, temple_id, site_id
\* and event_id in every state GalleryService.create and GalleryService.update
\* reach, and a create without any of the four raises a validation error and
\* adds no gallery.
C25_EveryGalleryAssociated ==
    /\ [](\A i \in DOMAIN galleries : associated(galleries[i]))
    /\ [][\A kwargs \in CreateKwargs("gallery") :
             (/\ resp'.op = "gallery.create"
              /\ Service_create("gallery", kwargs)
              /\ \A f \in content_fields : assoc(kwargs, f) = 0)
                 => resp'.status = "ValueError" /\ UNCHANGED content]_vars


-----------------------------------------------------------------------------
(* SpecDates: EventService.create, and EventService.update in sessions that *)
(* run side by side: each session selects the event, validates and assigns  *)
(* on the object it loaded, and commits.                                    *)

\* Keyword arguments of create and of update that carry dates
DateKwargs ==
    LET base == [name |-> "Fair", description |-> "Village fair",
                 event_type |-> "fair", location |-> "Osam", start_date |-> <<1>>]
    IN {base @@ [end_date |-> <<3>>], base @@ [end_date |-> <<0>>]}

DateChanges ==
    {[start_date |-> <<3>>], [end_date |-> <<1>>], [end_date |-> <<0>>],
     [start_date |-> <<2>>, end_date |-> <<2>>], [name |-> "Shivratri Fair"]}

\* db.query(Event).filter(Event.event_id == event_id).first(), the two
\* validations and the setattr loop of update, all on the object the session
\* loaded
event_update_select(s, event_id, kwargs) ==
    LET row == events[event_id]
        r == EventService_update(event_id :> row, event_id, kwargs, now)
    IN
    /\ sess[s].pc = "idle"
    /\ IF event_id \notin DOMAIN events
       THEN /\ resp' = Answer("event.update", "None", <<>>)
            /\ UNCHANGED sess
       ELSE IF r.ret # "event"
       THEN /\ resp' = Answer("event.update", r.ret, <<>>)
            /\ UNCHANGED sess
       ELSE /\ sess' = [sess EXCEPT ![s] =
                           [pc |-> "writing", id |-> event_id, loaded |-> row,
                            row |-> r.table[event_id]]]
            /\ UNCHANGED resp
    /\ UNCHANGED <<accounts, issued, now, content>>

\* self._commit() of update: the flush writes the columns whose value the
\* session changed, and updated_at, to the row as it is stored by then
event_update_commit(s) ==
    LET c == sess[s]
        changed == {k \in DOMAIN c.row : c.row[k] # c.loaded[k]} \cup {"updated_at"}
    IN
    /\ c.pc = "writing"
    /\ events' = flush(events, c.id, c.row, changed)
    /\ sess' = [sess EXCEPT ![s] = [pc |-> "idle"]]
    /\ resp' = Answer("event.update", "event", <<events'[c.id]>>)
    /\ UNCHANGED <<accounts, issued, now, places, galleries, images, next_image_id>>

NextDates ==
    \/ \E kwargs \in DateKwargs : Service_create("event", kwargs)
    \/ \E s \in 1..NumSessions, event_id \in 1..MaxCreated :
          \E kwargs \in DateChanges : event_update_select(s, event_id, kwargs)
    \/ \E s \in 1..NumSessions : event_update_commit(s)

SpecDates == InitCreate /\ [][NextDates]_vars

\* C26: every stored event has no end_date or an end_date that is not before
\* its start_date, in every state EventService.create and EventService.update
\* reach, updates of one event in separate sessions included.
C26_EndNotBeforeStart ==
    \A i \in DOMAIN events :
        ~ends_before_start(events[i].start_date, events[i].end_date)


-----------------------------------------------------------------------------
(* Properties of the stored role (Spec) *)

\* C27: the admin gate decides on the stored role at the time of the request,
\* not on the role claim of the token: once an admin's demote request for a
\* user is served, an unexpired token of that user is refused as forbidden by
\* the admin gate, and once the promote request is served, a token of that
\* user passes it, whatever role the token was issued with.
C27_RoleChangeTakesEffect ==
    [][\A token \in Creds, user_id \in UserIds :
          (Admitted(token) /\ user_id \in Ids(users)) =>
              /\ (resp'.op = "admin_demote_user" /\ admin_demote_user(token, user_id)) =>
                    \A tok \in Tokens :
                        (tok.user_id = user_id /\ Authenticated(tok)) =>
                            get_current_admin(users', tok, now').status
                                = HTTP_403_FORBIDDEN
              /\ (resp'.op = "admin_promote_user" /\ admin_promote_user(token, user_id)) =>
                    \A tok \in Tokens :
                        (tok.user_id = user_id /\ Authenticated(tok)) =>
                            get_current_admin(users', tok, now').status
                                = HTTP_200_OK]_vars


-----------------------------------------------------------------------------
(* Properties of an update that fails its validation (SpecService) *)

\* C28: an update of an existing place, event or gallery that fails with a
\* validation error (an enumerated field outside its set, or an event that
\* would end before it starts) changes no stored field of the entity,
\* view_count and the last-modified timestamp included.
C28_InvalidUpdateStoresNothing ==
    [][\A kind \in AllKinds, id \in 1..2 : \A kwargs \in ServiceUpdates(kind) :
          (/\ resp'.op = kind \o ".update"
           /\ resp'.status = "ValueError"
           /\ id \in DOMAIN Table(kind)
           /\ Service_update(kind, id, kwargs)) =>
              /\ Table(kind)'[id] = Table(kind)[id]
              /\ UNCHANGED content]_vars


-----------------------------------------------------------------------------
(* SpecFeatured: the featured image of two galleries, set and removed by    *)
(* requests behind the admin gate and read by requests of their own, each   *)
(* request in the session get_db opens and closes for it.                   *)

\* service.get_featured_image(gallery_id) in a request of its own
Service_get_featured_image(gallery_id) ==
    LET i == GalleryService_get_featured_image(images, gallery_id) IN
    /\ resp' = Answer("get_featured_image", IF i = 0 THEN "None" ELSE "image",
                      IF i = 0 THEN <<>> ELSE <<i, images[i]>>)
    /\ UNCHANGED <<accounts, issued, now, sess, content>>

InitFeatured ==
    /\ users \in SeedStores
    /\ next_user_id = 3
    /\ issued = {SeedToken(users, 1, 0), SeedToken(users, 2, 0)}
    /\ now = 0
    /\ resp = NoResp
    /\ sess = Idle
    /\ places = Empty
    /\ events = Empty
    /\ galleries = (1 :> SeedGallery(0, 1)) @@ (2 :> SeedGallery(0, 1))
    /\ images = (1 :> SeedImage(1, 1, TRUE)) @@ (2 :> SeedImage(1, 2, FALSE))
                   @@ (3 :> SeedImage(2, 1, FALSE))
    /\ next_image_id = 4

NextFeatured ==
    \/ \E token \in Creds, gallery_id \in 1..2, image_id \in 1..4 :
          set_featured_image(token, gallery_id, image_id)
    \/ \E token \in Creds, gallery_id \in 1..2, image_id \in 1..4 :
          remove_image_from_gallery(token, gallery_id, image_id)
    \/ \E gallery_id \in 1..2 : Service_get_featured_image(gallery_id)

SpecFeatured == InitFeatured /\ [][NextFeatured]_vars

\* C29: set_featured_image(gallery_id, image_id) for an image_id that is not
\* an image of that gallery is answered not found and leaves the store as it
\* was: the image featured before is still featured, and it is the one
\* get_featured_image returns in the requests that follow.
C29_UnknownImageKeepsFeatured ==
    /\ [][\A token \in Creds, gallery_id \in 1..2, image_id \in 1..4 :
             (/\ resp'.op = "set_featured_image"
              /\ Admitted(token)
              /\ ~(image_id \in DOMAIN images /\ images[image_id].gallery_id = gallery_id)
              /\ set_featured_image(token, gallery_id, image_id)) =>
                 /\ resp'.status = HTTP_404_NOT_FOUND
                 /\ UNCHANGED <<accounts, content>>
                 /\ GalleryService_get_featured_image(images', gallery_id)
                       = GalleryService_get_featured_image(images, gallery_id)]_vars
    /\ [][\A gallery_id \in 1..2 :
             (resp'.op = "get_featured_image" /\ Service_get_featured_image(gallery_id)) =>
                 /\ UNCHANGED <<accounts, content>>
                 /\ resp'.detail # <<>> =>
                       /\ images[resp'.detail[1]].is_featured
                       /\ images[resp'.detail[1]].gallery_id = gallery_id
                 /\ resp'.detail = <<>> =>
                       \A i \in DOMAIN images :
                           images[i].gallery_id = gallery_id => ~images[i].is_featured]_vars

\* An admin's request to feature an image of another gallery was answered not
\* found while image 1 is the featured image of gallery 1
C29_Witness ==
    /\ resp.op = "set_featured_image"
    /\ resp.status = HTTP_404_NOT_FOUND
    /\ 1 \in DOMAIN images /\ images[1].is_featured
    /\ 3 \in DOMAIN images /\ ~images[3].is_featured


-----------------------------------------------------------------------------
(* Properties of the admins that remain (Spec) *)

\* The active admins of the table
ActiveAdmins(U) == {i \in Admins(U) : U[i].is_active}

====
